---- MODULE Spec2Model ----
(***************************************************************************)
(* Model of the core of the Mess Project Manager extension: the            *)
(* indentation parser of NotesProvider, the sheet collection it keeps in   *)
(* step with the sheets folder, and the tree ProjectProvider folds its     *)
(* project list into.                                                      *)
(*                                                                         *)
(* A character is a string of length one and a text is a sequence of       *)
(* characters, so that trim, split, indexOf, substring and toLowerCase are *)
(* computed and not assumed.  Generated ids (generateId) are left out of   *)
(* headers and notes: they are random, and no modelled operation compares  *)
(* them.                                                                   *)
(***************************************************************************)
EXTENDS Integers, Sequences, FiniteSets, TLC

VARIABLES
  text,          \* SpecParse: the content handed to parseSheetContent
  parsed,        \* SpecParse: [done, headers], the result of the parse
  fs,            \* the sheets folder: a function from the names of its files to their text
  faulty,        \* whether the file system may fail an operation (fixed per behaviour)
  sheets,        \* NotesProvider.sheets
  searchFilter,  \* NotesProvider.searchFilter
  last,          \* history: the last operation and what it returned
  projects,      \* ProjectProvider.projects
  categories,    \* ProjectProvider.categories
  showCategories,\* ProjectProvider.showCategories (fixed by the constructor)
  tree,          \* what the last getChildren() of the project view returned
  activeTerminals, \* TerminalProvider.activeTerminals: terminal name -> terminal
  terminals,     \* the terminals created in the window: [name, cwd, open]
  closeListeners,\* the terminals whose onDidCloseTerminal listener is registered
  shown,         \* history: what the last openIntegratedTerminal did
  projectsFile,  \* the records of projects.json, in file order
  categoriesFile,\* the categories of categories.json
  setting,       \* the persisted setting messProjectManager.showInactiveProjects
  settingUpdates,\* the config.update() calls that have not landed yet, oldest first
  watcherEvents, \* the changes of projects.json the file watcher has not delivered yet
  saves,         \* how many times projects.json was written
  showInactiveProjects, \* ProjectProvider.showInactiveProjects of the categorized view
  projectSearchFilter,  \* ProjectProvider.searchFilter of the categorized view
  peers,         \* the "all" and the "git" provider: [projects, searchFilter, showInactiveProjects]
  lastCommand    \* history: the last command or drop, its arguments and the state it started from

notesProvider == <<text, parsed, fs, faulty, sheets, searchFilter, last>>

provider == <<projects, categories, showCategories, tree>>

terminalProvider == <<activeTerminals, terminals, closeListeners, shown>>

\* what the three project providers share
store == <<projectsFile, categoriesFile, setting, settingUpdates, watcherEvents, saves>>

\* the filter state of the categorized provider, the other two providers
views == <<showInactiveProjects, projectSearchFilter, peers, lastCommand>>

\* the state outside NotesProvider
outside == <<provider, terminalProvider, store, views>>

vars == <<notesProvider, outside>>

----------------------------------------------------------------------------
(* Bounds of the model *)

MaxSpaces == 12     \* widest run of leading spaces of a generated line
MaxLines == 3       \* most lines of a generated structure text
MaxBodyLen == 6     \* longest generated body of a note line

----------------------------------------------------------------------------
(* JavaScript string primitives, on sequences of characters *)

Min(S) == CHOOSE x \in S : \A y \in S : x <= y
Max(S) == CHOOSE x \in S : \A y \in S : x >= y

\* the white space String.prototype.trim and the regex \s know, within the alphabet
IsSpace(c) == c \in {" ", "\t", "\n", "\r"}

RECURSIVE trimStart(_)
trimStart(s) ==
  IF s = <<>> THEN s
  ELSE IF IsSpace(Head(s)) THEN trimStart(Tail(s)) ELSE s

RECURSIVE trimEnd(_)
trimEnd(s) ==
  IF s = <<>> THEN s
  ELSE IF IsSpace(s[Len(s)]) THEN trimEnd(SubSeq(s, 1, Len(s) - 1)) ELSE s

trim(s) == trimEnd(trimStart(s))

\* s.substring(from, to) and s.substring(from): 0-based, end exclusive
substring(s, from, to) == SubSeq(s, from + 1, to)
substringFrom(s, from) == SubSeq(s, from + 1, Len(s))

\* s.indexOf(sub): 0-based index of the first occurrence, -1 when there is none
indexOf(s, sub) ==
  LET hits == {i \in 0..(Len(s) - Len(sub)) : SubSeq(s, i + 1, i + Len(sub)) = sub}
  IN IF hits = {} THEN -1 ELSE Min(hits)

includes(s, sub) == indexOf(s, sub) # -1

startsWith(s, c) == Len(s) > 0 /\ s[1] = c

\* s.split(sep) for a one-character separator
RECURSIVE split(_, _)
split(s, sep) ==
  LET at == {i \in 1..Len(s) : s[i] = sep}
  IN IF at = {} THEN <<s>>
     ELSE <<SubSeq(s, 1, Min(at) - 1)>> \o split(SubSeq(s, Min(at) + 1, Len(s)), sep)

\* s.split(/\s+/): the pieces between maximal runs of white space
RECURSIVE splitWs(_)
splitWs(s) ==
  LET at == {i \in 1..Len(s) : IsSpace(s[i])}
  IN IF at = {} THEN <<s>>
     ELSE <<SubSeq(s, 1, Min(at) - 1)>>
            \o splitWs(trimStart(SubSeq(s, Min(at), Len(s))))

\* words.join(sep)
RECURSIVE join(_, _)
join(words, sep) ==
  IF words = <<>> THEN <<>>
  ELSE IF Len(words) = 1 THEN words[1]
  ELSE words[1] \o sep \o join(Tail(words), sep)

lowerChar(c) ==
  CASE c = "A" -> "a"
    [] c = "B" -> "b"
    [] c = "U" -> "u"
    [] OTHER -> c

toLowerCase(s) == [i \in 1..Len(s) |-> lowerChar(s[i])]

----------------------------------------------------------------------------
(* The indentation parser *)

RECURSIVE indentCount(_, _)
indentCount(line, i) ==
  IF i >= Len(line) THEN 0
  ELSE IF line[i + 1] = " " THEN 1 + indentCount(line, i + 1)
  ELSE IF line[i + 1] = "\t" THEN 4 + indentCount(line, i + 1)
  ELSE 0

\* levels rounded to the nearest, and rounded up
getIndentLevelNearest(line) == (indentCount(line, 0) + 2) \div 4
getIndentLevelUp(line) == (indentCount(line, 0) + 3) \div 4

getIndentLevel(line) == indentCount(line, 0) \div 4

Ellipsis == <<".", ".", ".">>

\* a title that is cut only from the fifth word on
generateTitleOfFour(content) ==
  LET words == splitWs(trim(content))
  IN IF Len(words) <= 4 THEN content
     ELSE join(SubSeq(words, 1, 3), <<" ">>) \o Ellipsis

generateTitleFromContent(content) ==
  LET words == splitWs(trim(content))
  IN IF Len(words) <= 3 THEN content
     ELSE join(SubSeq(words, 1, 3), <<" ">>) \o Ellipsis

\* new Date() at loop index i of a parse: the clock never runs backwards; a
\* parse is either done within one millisecond or crosses one at every line
Now(slow, i) == IF slow THEN i ELSE 0

\* a note whose command marker is cut without the white space after it
makeNoteUntrimmed(trimmedLine, headerName, createdAt) ==
  LET isCommand == startsWith(trimmedLine, ">")
      content0 == IF isCommand THEN substringFrom(trimmedLine, 1) ELSE trimmedLine
      hashIndex == indexOf(content0, <<" ", "#">>)
      description == IF hashIndex # -1
                     THEN trim(substringFrom(content0, hashIndex + 2)) ELSE <<>>
      content == IF hashIndex # -1
                 THEN trim(substring(content0, 0, hashIndex)) ELSE content0
  IN [ title |-> generateTitleFromContent(content),
       content |-> content,
       type |-> IF isCommand THEN "command" ELSE "note",
       createdAt |-> createdAt,
       tags |-> <<>>,
       sheetName |-> <<>>,
       headerName |-> headerName,
       description |-> description ]

\* a note split on the last separator instead of the first
lastIndexOf(s, sub) ==
  LET at == {i \in 0..(Len(s) - Len(sub)) : SubSeq(s, i + 1, i + Len(sub)) = sub}
  IN IF at = {} THEN -1 ELSE Max(at)

makeNoteLastSeparator(trimmedLine, headerName, createdAt) ==
  LET isCommand == startsWith(trimmedLine, ">")
      content0 == IF isCommand THEN trim(substringFrom(trimmedLine, 1)) ELSE trimmedLine
      hashIndex == lastIndexOf(content0, <<" ", "#">>)
      description == IF hashIndex # -1
                     THEN trim(substringFrom(content0, hashIndex + 2)) ELSE <<>>
      content == IF hashIndex # -1
                 THEN trim(substring(content0, 0, hashIndex)) ELSE content0
  IN [ title |-> generateTitleFromContent(content),
       content |-> content,
       type |-> IF isCommand THEN "command" ELSE "note",
       createdAt |-> createdAt,
       tags |-> <<>>,
       sheetName |-> <<>>,
       headerName |-> headerName,
       description |-> description ]

\* the body of the level-2 branch: the note of one trimmed line
makeNote(trimmedLine, headerName, createdAt) ==
  LET isCommand == startsWith(trimmedLine, ">")
      content0 == IF isCommand THEN trim(substringFrom(trimmedLine, 1)) ELSE trimmedLine
      hashIndex == indexOf(content0, <<" ", "#">>)
      description == IF hashIndex # -1
                     THEN trim(substringFrom(content0, hashIndex + 2)) ELSE <<>>
      content == IF hashIndex # -1
                 THEN trim(substring(content0, 0, hashIndex)) ELSE content0
  IN [ title |-> generateTitleFromContent(content),
       content |-> content,
       type |-> IF isCommand THEN "command" ELSE "note",
       createdAt |-> createdAt,
       tags |-> <<>>,
       sheetName |-> <<>>,
       headerName |-> headerName,
       description |-> description ]

\* the loop of parseSheetContent from index i on; currentHeader is 0 for null
\* and otherwise the position in headers of the object it refers to
RECURSIVE parseLoop(_, _, _, _, _)
parseLoop(lines, i, headers, currentHeader, slow) ==
  IF i >= Len(lines) THEN headers
  ELSE
    LET line == lines[i + 1]
        trimmedLine == trim(line)
    IN IF trimmedLine = <<>> THEN parseLoop(lines, i + 1, headers, currentHeader, slow)
       ELSE IF getIndentLevel(line) = 1
         THEN parseLoop(lines, i + 1,
                        Append(headers, [name |-> trimmedLine, notes |-> <<>>]),
                        Len(headers) + 1, slow)
       ELSE IF getIndentLevel(line) = 2 /\ currentHeader # 0
         THEN parseLoop(lines, i + 1,
                        [headers EXCEPT ![currentHeader].notes =
                           Append(@, makeNote(trimmedLine, headers[currentHeader].name,
                                              Now(slow, i)))],
                        currentHeader, slow)
       ELSE parseLoop(lines, i + 1, headers, currentHeader, slow)

parseSheetContent(content, slow) == parseLoop(split(content, "\n"), 0, <<>>, 0, slow)

----------------------------------------------------------------------------
(* Inputs of the parser specification *)

Spaces(n) == [i \in 1..n |-> " "]

Sp4 == Spaces(4)
Sp8 == Spaces(8)

\* every text of at most n characters over alphabet A
Strings(A, n) == UNION {[1..k -> A] : k \in 0..n}

\* leading white space of a generated line: runs of spaces, and tabs mixed in
Prefixes ==
  {Spaces(n) : n \in 0..MaxSpaces}
    \cup {<<"\t">>, <<"\t", "\t">>, <<" ", " ", "\t", " ", " ">>, <<"\t", "\t", "\t">>}

\* a one-word line under every leading white space
PrefixLines == {p \o <<"a">> : p \in Prefixes}

\* every text of three such lines
PrefixTexts ==
  {l1 \o <<"\n">> \o l2 \o <<"\n">> \o l3 : l1 \in PrefixLines, l2 \in PrefixLines, l3 \in PrefixLines}

\* the blank lines: empty, and white space ended by a carriage return
BlankLines == {<<>>, Sp4 \o <<"\r">>}

\* one line of each kind: blank, level 0, a header, a note, a command, a
\* deeper level, and a header by a tab
KindLines ==
  BlankLines
    \cup {<<"a">>, Sp4 \o <<"a">>, Sp8 \o <<"a">>, Sp8 \o <<">", "b">>,
          Spaces(MaxSpaces) \o <<"a">>, <<"\t", "b">>}

RECURSIVE TextsOf(_, _)
TextsOf(lineSet, n) ==
  IF n = 1 THEN lineSet
  ELSE LET shorter == TextsOf(lineSet, n - 1)
       IN shorter \cup {t \o <<"\n">> \o l : t \in shorter, l \in lineSet}

\* texts of up to MaxLines lines of these kinds
KindTexts == TextsOf(KindLines, MaxLines)

StructTexts == PrefixTexts \cup KindTexts

NoteAlphabet == {" ", ">", "#", "a"}

\* the bodies of four one-character words
FourWords ==
  {<<w1, " ", w2, " ", w3, " ", w4>> :
     w1 \in {">", "#", "a"}, w2 \in {">", "#", "a"}, w3 \in {">", "#", "a"}, w4 \in {">", "#", "a"}}

\* one header and under it one level-2 line with any body
NoteTexts ==
  {Sp4 \o <<"b", "\n">> \o Sp8 \o body :
     body \in Strings(NoteAlphabet, MaxBodyLen) \cup FourWords}

ParseInputs == StructTexts \cup NoteTexts

NotParsed == [done |-> FALSE, headers |-> <<>>]

----------------------------------------------------------------------------
(* The sheets folder.  A file name is a sequence of pieces, ".txt" being one
   piece, and the stem of a file is one character of the texts made from it. *)


TipsFile == <<"useful-tips", ".txt">>
TipsId == <<"useful-tips">>
\* a copy kept beside the sheets: no sheet file, though ".txt" is in its name
BakFile == <<"useful-tips", ".txt", ".bak">>

\* the ids generateId can return
NewIds == {<<"s1">>, <<"s2">>}

\* file.endsWith('.txt')
endsWithTxt(file) == Len(file) > 0 /\ file[Len(file)] = ".txt"

\* file.replace('.txt', ''): the first occurrence only
replaceTxt(file) ==
  LET at == {i \in 1..Len(file) : file[i] = ".txt"}
  IN IF at = {} THEN file
     ELSE SubSeq(file, 1, Min(at) - 1) \o SubSeq(file, Min(at) + 1, Len(file))

\* fs.writeFileSync and fs.unlinkSync
writeFile(files, file, content) ==
  [f \in DOMAIN files \cup {file} |-> IF f = file THEN content ELSE files[f]]

\* an unlink that removes nothing
unlinkNothing(files, file) == files

unlink(files, file) == [f \in DOMAIN files \ {file} |-> files[f]]

Nl == <<"\n">>

\* the built-in template, cut down to two headers: a command with a
\* description and one without, and a note of four words with a description
UsefulTipsName == <<"U">>

usefulTipsContent ==
  UsefulTipsName \o Nl \o Nl
    \o Sp4 \o <<"a">> \o Nl
    \o Sp8 \o <<">", " ", "a", " ", "#", "A">> \o Nl
    \o Sp8 \o <<">", "b">> \o Nl
    \o Sp4 \o <<"B">> \o Nl
    \o Sp8 \o <<"a", " ", "b", " ", "a", " ", "b", " ", "#", "b">>

\* a default text of the name line alone
defaultContentBare(name) == name

\* the text addSheet writes, cut down to one header with one command
defaultContent(name) ==
  name \o Nl \o Nl
    \o Sp4 \o <<"a">> \o Nl
    \o Sp8 \o <<">", " ", "a">>

\* the names a user gives a sheet
SheetNames == {<<"a">>, <<"B">>}

\* the names updateSheet is called with: a plain one, and one typed with four
\* spaces before it
RenameNames == {<<"B">>, Sp4 \o <<"b">>}

\* what a user saves into a sheet file from the editor: a command before any
\* header, then one header with a command
EditText ==
  <<"B">> \o Nl
    \o Sp8 \o <<">", "b">> \o Nl
    \o Sp4 \o <<"B">> \o Nl
    \o Sp8 \o <<">", " ", "b", " ", "#", "A">>

EditTexts == {EditText}

\* the files a user edits or deletes by hand
EditedFiles == {<<"s1", ".txt">>, TipsFile}

\* the search terms a user sets
SearchTerms == {<<"A">>}

----------------------------------------------------------------------------
(* loadSheets *)

updateSheetNameInNotes(sheet) ==
  [sheet EXCEPT !.headers =
     [h \in 1..Len(sheet.headers) |->
        [sheet.headers[h] EXCEPT !.notes =
           [n \in 1..Len(sheet.headers[h].notes) |->
              [sheet.headers[h].notes[n] EXCEPT !.sheetName = sheet.name]]]]]

\* the template is a constant of the program: its parse under either clock
usefulTipsHeaders == [slow \in BOOLEAN |-> parseSheetContent(usefulTipsContent, slow)]

\* a template sheet that enters the list even when its file cannot be written
createUsefulTipsAnyway(st, writeOk, slow) ==
  LET sheet == updateSheetNameInNotes(
                 [ name |-> UsefulTipsName,
                   id |-> TipsId,
                   filePath |-> TipsFile,
                   content |-> usefulTipsContent,
                   headers |-> usefulTipsHeaders[slow] ])
      existing == {i \in 1..Len(st.sheets) : st.sheets[i].id = TipsId}
  IN [ fs |-> IF writeOk THEN writeFile(st.fs, TipsFile, usefulTipsContent) ELSE st.fs,
       sheets |-> IF existing # {}
                  THEN [st.sheets EXCEPT ![Min(existing)] = sheet]
                  ELSE <<sheet>> \o st.sheets,
       wrote |-> st.wrote \/ writeOk ]

\* st is [fs, sheets, wrote]; writeOk is whether writeFileSync succeeds
createOrUpdateUsefulTipsSheet(st, writeOk, slow) ==
  IF ~writeOk THEN st
  ELSE
    LET sheet == updateSheetNameInNotes(
                   [ name |-> UsefulTipsName,
                     id |-> TipsId,
                     filePath |-> TipsFile,
                     content |-> usefulTipsContent,
                     headers |-> usefulTipsHeaders[slow] ])
        existing == {i \in 1..Len(st.sheets) : st.sheets[i].id = TipsId}
    IN [ fs |-> writeFile(st.fs, TipsFile, usefulTipsContent),
         sheets |-> IF existing # {}
                    THEN [st.sheets EXCEPT ![Min(existing)] = sheet]
                    ELSE <<sheet>> \o st.sheets,
         wrote |-> TRUE ]

\* the texts a sheet file holds after addSheet, a save from the editor, and
\* updateSheet on either
WrittenTexts == {defaultContent(name) : name \in SheetNames} \cup EditTexts

FileTexts ==
  WrittenTexts
    \cup {join([split(t, "\n") EXCEPT ![1] = name], Nl) : t \in WrittenTexts, name \in RenameNames}

\* parseSheetContent is a function of its text and the clock: its values on
\* those texts, computed once
parsedTexts ==
  [t \in FileTexts |-> [slow \in BOOLEAN |-> parseSheetContent(t, slow)]]

\* this.parseSheetContent(content) on the text of a file
parseText(content, slow) ==
  IF content \in FileTexts THEN parsedTexts[content][slow]
  ELSE parseSheetContent(content, slow)

\* the sheet loadSheets makes of one file
sheetOfFile(file, content, slow) ==
  LET firstLine == trim(split(content, "\n")[1])
  IN updateSheetNameInNotes(
       [ name |-> IF firstLine # <<>> THEN firstLine ELSE replaceTxt(file),
         id |-> replaceTxt(file),
         filePath |-> file,
         content |-> content,
         headers |-> parseText(content, slow) ])

\* the loop without its exclusion of useful-tips.txt
RECURSIVE scanFilesAll(_, _, _, _)
scanFilesAll(listing, files, unreadable, slow) ==
  IF listing = <<>> THEN <<>>
  ELSE
    LET file == Head(listing)
        rest == scanFilesAll(Tail(listing), files, unreadable, slow)
    IN IF endsWithTxt(file) /\ file \notin unreadable
         THEN <<sheetOfFile(file, files[file], slow)>> \o rest
         ELSE rest

\* a loop that ends at the first file it cannot read
RECURSIVE scanFilesAbort(_, _, _, _)
scanFilesAbort(listing, files, unreadable, slow) ==
  IF listing = <<>> THEN <<>>
  ELSE
    LET file == Head(listing)
    IN IF ~(endsWithTxt(file) /\ file # TipsFile)
         THEN scanFilesAbort(Tail(listing), files, unreadable, slow)
       ELSE IF file \in unreadable THEN <<>>
       ELSE <<sheetOfFile(file, files[file], slow)>>
              \o scanFilesAbort(Tail(listing), files, unreadable, slow)

\* the loop over readdirSync's listing; a file in unreadable makes readFileSync throw
RECURSIVE scanFiles(_, _, _, _)
scanFiles(listing, files, unreadable, slow) ==
  IF listing = <<>> THEN <<>>
  ELSE
    LET file == Head(listing)
        rest == scanFiles(Tail(listing), files, unreadable, slow)
    IN IF endsWithTxt(file) /\ file # TipsFile /\ file \notin unreadable
         THEN <<sheetOfFile(file, files[file], slow)>> \o rest
         ELSE rest

\* a.name.localeCompare(b.name): white space, punctuation and symbols before
\* letters, letters by the alphabet, and lower case before upper case on a tie
primaryWeight(c) ==
  CASE c = " " -> 1
    [] c = "." -> 2
    [] c = "#" -> 3
    [] c = ">" -> 4
    [] c \in {"a", "A"} -> 10
    [] c \in {"b", "B"} -> 11
    [] c = "notes" -> 12
    [] c = "s1" -> 13
    [] c = "s2" -> 14
    [] c \in {"u", "U"} -> 15
    [] OTHER -> 16

caseWeight(c) == IF c \in {"A", "B", "U"} THEN 1 ELSE 0

\* one pass of the comparison: by the letters, or by their case
weightOf(byCase, c) == IF byCase THEN caseWeight(c) ELSE primaryWeight(c)

RECURSIVE compareBy(_, _, _)
compareBy(byCase, a, b) ==
  IF a = <<>> /\ b = <<>> THEN 0
  ELSE IF a = <<>> THEN -1
  ELSE IF b = <<>> THEN 1
  ELSE IF weightOf(byCase, Head(a)) < weightOf(byCase, Head(b)) THEN -1
  ELSE IF weightOf(byCase, Head(a)) > weightOf(byCase, Head(b)) THEN 1
  ELSE compareBy(byCase, Tail(a), Tail(b))

localeCompare(a, b) ==
  IF compareBy(FALSE, a, b) # 0 THEN compareBy(FALSE, a, b)
  ELSE compareBy(TRUE, a, b)

\* a comparator by name alone
compareSheetsByName(a, b) == localeCompare(a.name, b.name)

\* the comparator of the sort that ends loadSheets
compareSheets(a, b) ==
  IF a.id = TipsId THEN -1
  ELSE IF b.id = TipsId THEN 1
  ELSE localeCompare(a.name, b.name)

\* Array.prototype.sort, which is stable: insertion from the left
insertSheet(sorted, x) ==
  LET before == {j \in 1..Len(sorted) : compareSheets(sorted[j], x) <= 0}
      j == IF before = {} THEN 0 ELSE Max(before)
  IN SubSeq(sorted, 1, j) \o <<x>> \o SubSeq(sorted, j + 1, Len(sorted))

RECURSIVE sortSheets(_)
sortSheets(list) ==
  IF list = <<>> THEN <<>>
  ELSE insertSheet(sortSheets(SubSeq(list, 1, Len(list) - 1)), list[Len(list)])

\* what the file system does to one load: whether the two writes of the
\* template and readdirSync succeed, and which files cannot be read
NoFault == [w1 |-> TRUE, dir |-> TRUE, unreadable |-> {}, w2 |-> TRUE]

\* a load that keeps the list it finds instead of starting from an empty one
loadSheetsKeep(st, listing, fault, slow) ==
  LET tips == createOrUpdateUsefulTipsSheet(
                [fs |-> st.fs, sheets |-> st.sheets, wrote |-> FALSE], fault.w1, slow)
  IN IF fault.dir
       THEN [tips EXCEPT !.sheets =
               sortSheets(tips.sheets \o scanFiles(listing, tips.fs, fault.unreadable, slow))]
       ELSE createOrUpdateUsefulTipsSheet(tips, fault.w2, slow)

\* st is [fs, sheets]; listing is what readdirSync returns
loadSheets(st, listing, fault, slow) ==
  LET tips == createOrUpdateUsefulTipsSheet(
                [fs |-> st.fs, sheets |-> <<>>, wrote |-> FALSE], fault.w1, slow)
  IN IF fault.dir
       THEN [tips EXCEPT !.sheets =
               sortSheets(tips.sheets \o scanFiles(listing, tips.fs, fault.unreadable, slow))]
       ELSE createOrUpdateUsefulTipsSheet(tips, fault.w2, slow)

----------------------------------------------------------------------------
(* What the environment decides in one load *)

Perms(S) ==
  {p \in [1..Cardinality(S) -> S] : \A x \in S : \E i \in 1..Cardinality(S) : p[i] = x}

RECURSIVE seqOf(_)
seqOf(S) ==
  IF S = {} THEN <<>>
  ELSE LET x == CHOOSE y \in S : TRUE IN <<x>> \o seqOf(S \ {x})

scanned(names) == {f \in names : endsWithTxt(f) /\ f # TipsFile}

\* the orders readdirSync can list the folder in; the files the scan skips are
\* listed first, since their place changes nothing
Listings(names) == {seqOf(names \ scanned(names)) \o p : p \in Perms(scanned(names))}

\* whether one file operation succeeds
IoOk == IF faulty THEN BOOLEAN ELSE {TRUE}

Faults(names) ==
  IF faulty
    THEN {f \in [w1 : BOOLEAN, dir : BOOLEAN, unreadable : SUBSET scanned(names), w2 : BOOLEAN] :
            /\ f.dir => f.w2
            /\ ~f.dir => f.unreadable = {}}
    ELSE {NoFault}

\* every outcome of loadSheets from st = [fs, sheets], with what the file
\* system did to it
Loads(st) ==
  {LET r == loadSheets(st, l, f, slow)
   IN [fs |-> r.fs, sheets |-> r.sheets, wrote |-> r.wrote, fault |-> f] :
     l \in Listings(DOMAIN st.fs \cup {TipsFile}),
     f \in Faults(DOMAIN st.fs),
     slow \in BOOLEAN}

\* the history of one step: the operation, whether it ran to its end without a
\* caught error, whether it loaded the sheets, whether that load wrote the
\* template and what failed in it, and the arguments of a mutation
Did(op, ok, loaded, wrote) ==
  [ op |-> op, ok |-> ok, loaded |-> loaded, wrote |-> wrote, fault |-> NoFault,
    id |-> <<>>, name |-> <<>> ]

\* the history of a step that ended with the load r
DidLoad(op, r) == [Did(op, TRUE, TRUE, r.wrote) EXCEPT !.fault = r.fault]

\* the history of a mutation that ran to its reload r, with its arguments
DidTo(op, id, name, r) == [DidLoad(op, r) EXCEPT !.id = id, !.name = name]

----------------------------------------------------------------------------
(* The operations of NotesProvider *)

\* refresh(), and the loadSheets of the constructor
refresh ==
  /\ \E r \in Loads([fs |-> fs, sheets |-> sheets]) :
       /\ fs' = r.fs
       /\ sheets' = r.sheets
       /\ last' = DidLoad("refresh", r)
  /\ UNCHANGED <<outside, text, parsed, faulty, searchFilter>>

findSheet(id) == {i \in 1..Len(sheets) : sheets[i].id = id}

addSheet(name) ==
  /\ \E id \in NewIds, writeOk \in IoOk :
       LET file == id \o <<".txt">>
           content == defaultContent(name)
           \* the sheet addSheet pushes; the load that follows starts from an
           \* empty list, so the clock of this parse shows nowhere
           sheet == updateSheetNameInNotes(
                      [ name |-> name, id |-> id, filePath |-> file, content |-> content,
                        headers |-> parseSheetContent(content, FALSE) ])
       IN \* generateId: an id no file and no sheet has
          /\ file \notin DOMAIN fs
          /\ findSheet(id) = {}
          /\ IF writeOk
               THEN \E r \in Loads([fs |-> writeFile(fs, file, content),
                                    sheets |-> Append(sheets, sheet)]) :
                      /\ fs' = r.fs
                      /\ sheets' = r.sheets
                      /\ last' = DidTo("addSheet", id, name, r)
               ELSE /\ UNCHANGED <<fs, sheets>>
                    /\ last' = Did("addSheet", FALSE, FALSE, FALSE)
  /\ UNCHANGED <<outside, text, parsed, faulty, searchFilter>>

updateSheet(id, name) ==
  /\ IF findSheet(id) = {}
       THEN /\ UNCHANGED <<fs, sheets>>
            /\ last' = Did("updateSheet", FALSE, FALSE, FALSE)
       ELSE
         LET sheet == sheets[Min(findSheet(id))]
         IN \E readOk \in IoOk, writeOk \in IoOk :
              IF sheet.filePath \in DOMAIN fs /\ readOk /\ writeOk
                THEN
                  LET lines == split(fs[sheet.filePath], "\n")
                      newContent == join([lines EXCEPT ![1] = name], Nl)
                  IN \E r \in Loads([fs |-> writeFile(fs, sheet.filePath, newContent),
                                     sheets |-> sheets]) :
                       /\ fs' = r.fs
                       /\ sheets' = r.sheets
                       /\ last' = DidTo("updateSheet", id, name, r)
                ELSE /\ UNCHANGED <<fs, sheets>>
                     /\ last' = Did("updateSheet", FALSE, FALSE, FALSE)
  /\ UNCHANGED <<outside, text, parsed, faulty, searchFilter>>

deleteSheet(id) ==
  /\ IF findSheet(id) = {}
       THEN /\ UNCHANGED <<fs, sheets>>
            /\ last' = Did("deleteSheet", FALSE, FALSE, FALSE)
       ELSE
         LET sheet == sheets[Min(findSheet(id))]
         IN \E unlinkOk \in IoOk :
              IF sheet.filePath \notin DOMAIN fs \/ unlinkOk
                THEN \E r \in Loads([fs |-> unlink(fs, sheet.filePath), sheets |-> sheets]) :
                       /\ fs' = r.fs
                       /\ sheets' = r.sheets
                       /\ last' = DidTo("deleteSheet", id, <<>>, r)
                ELSE /\ UNCHANGED <<fs, sheets>>
                     /\ last' = Did("deleteSheet", FALSE, FALSE, FALSE)
  /\ UNCHANGED <<outside, text, parsed, faulty, searchFilter>>

setSearchFilter(filter) ==
  /\ searchFilter' = filter
  /\ \E r \in Loads([fs |-> fs, sheets |-> sheets]) :
       /\ fs' = r.fs
       /\ sheets' = r.sheets
       /\ last' = DidLoad("setSearchFilter", r)
  /\ UNCHANGED <<outside, text, parsed, faulty>>

clearSearchFilter ==
  /\ searchFilter' = <<>>
  /\ \E r \in Loads([fs |-> fs, sheets |-> sheets]) :
       /\ fs' = r.fs
       /\ sheets' = r.sheets
       /\ last' = DidLoad("clearSearchFilter", r)
  /\ UNCHANGED <<outside, text, parsed, faulty>>

----------------------------------------------------------------------------
(* getChildren *)

noteMatches(note, filter) ==
  \/ includes(toLowerCase(note.title), filter)
  \/ includes(toLowerCase(note.content), filter)
  \/ \E t \in 1..Len(note.tags) : includes(toLowerCase(note.tags[t]), filter)

headerMatchesSearch(header) ==
  LET filter == toLowerCase(searchFilter)
  IN \/ includes(toLowerCase(header.name), filter)
     \/ \E n \in 1..Len(header.notes) : noteMatches(header.notes[n], filter)

\* a match on the sheet's name alone
sheetMatchesName(sheet) == includes(toLowerCase(sheet.name), toLowerCase(searchFilter))

sheetMatchesSearch(sheet) ==
  LET filter == toLowerCase(searchFilter)
  IN \/ includes(toLowerCase(sheet.name), filter)
     \/ \E h \in 1..Len(sheet.headers) : headerMatchesSearch(sheet.headers[h])

\* notes.sort((a, b) => Date(b.createdAt) - Date(a.createdAt)): newest first, stable
insertNote(sorted, x) ==
  LET before == {j \in 1..Len(sorted) : x.createdAt - sorted[j].createdAt <= 0}
      j == IF before = {} THEN 0 ELSE Max(before)
  IN SubSeq(sorted, 1, j) \o <<x>> \o SubSeq(sorted, j + 1, Len(sorted))

RECURSIVE sortNotes(_)
sortNotes(list) ==
  IF list = <<>> THEN <<>>
  ELSE insertNote(sortNotes(SubSeq(list, 1, Len(list) - 1)), list[Len(list)])

\* what getChildren() returns for the root
rootChildren ==
  IF searchFilter # <<>> THEN SelectSeq(sheets, sheetMatchesSearch) ELSE sheets

\* what getChildren(sheetItem) returns for the item holding sheets[i]
sheetChildren(i) ==
  IF searchFilter # <<>>
    THEN SelectSeq(sheets[i].headers, headerMatchesSearch)
    ELSE sheets[i].headers

\* what getChildren(headerItem) returns for the item holding sheets[i].headers[j]
headerChildren(i, j) ==
  LET header == sheets[i].headers[j]
      matches(note) == noteMatches(note, toLowerCase(searchFilter))
  IN IF searchFilter # <<>>
       THEN sortNotes(SelectSeq(header.notes, matches))
       ELSE sortNotes(header.notes)

getChildrenRoot ==
  /\ last' = Did("getChildren", TRUE, FALSE, FALSE)
  /\ UNCHANGED <<outside, text, parsed, fs, faulty, sheets, searchFilter>>

getChildrenSheet(i) ==
  /\ i \in 1..Len(sheets)
  /\ last' = Did("getChildrenSheet", TRUE, FALSE, FALSE)
  /\ UNCHANGED <<outside, text, parsed, fs, faulty, sheets, searchFilter>>

\* without a search term filteredNotes is header.notes itself, and sort()
\* sorts that array in place
getChildrenHeader(i, j) ==
  /\ i \in 1..Len(sheets)
  /\ j \in 1..Len(sheets[i].headers)
  /\ last' = Did("getChildrenHeader", TRUE, FALSE, FALSE)
  /\ IF searchFilter # <<>>
       THEN UNCHANGED sheets
       ELSE sheets' = [sheets EXCEPT ![i].headers[j].notes = sortNotes(@)]
  /\ UNCHANGED <<outside, text, parsed, fs, faulty, searchFilter>>

----------------------------------------------------------------------------
(* The user at work in the sheets folder, outside the provider *)

externalWrite(file, content) ==
  /\ fs' = writeFile(fs, file, content)
  /\ last' = Did("external", TRUE, FALSE, FALSE)
  /\ UNCHANGED <<outside, text, parsed, faulty, sheets, searchFilter>>

externalDelete(file) ==
  /\ file \in DOMAIN fs
  /\ fs' = unlink(fs, file)
  /\ last' = Did("external", TRUE, FALSE, FALSE)
  /\ UNCHANGED <<outside, text, parsed, faulty, sheets, searchFilter>>

externalRename(from, to) ==
  /\ from \in DOMAIN fs
  /\ fs' = writeFile(unlink(fs, from), to, fs[from])
  /\ last' = Did("external", TRUE, FALSE, FALSE)
  /\ UNCHANGED <<outside, text, parsed, faulty, sheets, searchFilter>>

----------------------------------------------------------------------------
(* ProjectProvider: the project list and the tree it is folded into.

   Labels, paths and category ids are sequences of characters.  A record of
   projects.json is a TLA+ record that has the fields "category" and
   "favorite" only when the JSON object has them.  The project type and the
   icon of an item are read from the disk by detectProjectType and are left
   out: no modelled operation compares them, and the project paths are taken
   to be folders. *)

MaxProjects == 2    \* most records of a generated project list

\* the value of a property that is absent
Undefined == <<"undefined">>

\* project.category, project.favorite || false, and the test if (x) on a string
categoryOf(project) ==
  IF "category" \in DOMAIN project THEN project.category ELSE Undefined
favoriteOf(project) == "favorite" \in DOMAIN project /\ project.favorite
truthy(s) == s # Undefined /\ s # <<>>

\* label.split(/[\\/]/)
IsSeparator(c) == c \in {"/", "\\"}

RECURSIVE splitLabel(_)
splitLabel(label) ==
  LET at == {i \in 1..Len(label) : IsSeparator(label[i])}
  IN IF at = {}
       THEN <<label>>
       ELSE <<SubSeq(label, 1, Min(at) - 1)>>
              \o splitLabel(SubSeq(label, Min(at) + 1, Len(label)))

(* The object literals root and __children.  An object is the sequence of
   its own properties [name, value] in the order Object.entries lists them:
   the names that are array indices in ascending numeric order, then the
   other names in the order of their creation.  Names of up to nine digits
   are compared, which is below the limit 2^32 - 2 of an array index. *)
Digits == <<"0", "1", "2", "3", "4", "5", "6", "7", "8", "9">>
IsDigit(c) == \E d \in 1..10 : Digits[d] = c
digitOf(c) == (CHOOSE d \in 1..10 : Digits[d] = c) - 1

RECURSIVE toNumber(_)
toNumber(s) ==
  IF s = <<>> THEN 0
  ELSE 10 * toNumber(SubSeq(s, 1, Len(s) - 1)) + digitOf(s[Len(s)])

isArrayIndex(name) ==
  /\ Len(name) \in 1..9
  /\ \A i \in 1..Len(name) : IsDigit(name[i])
  /\ (Len(name) = 1 \/ name[1] # "0")

\* names every object literal inherits from Object.prototype; obj[name] is
\* then a function of the runtime although obj has no such property
Constructor == <<"c", "o", "n", "s", "t", "r", "u", "c", "t", "o", "r">>
InheritedNames == {Constructor}

hasOwn(obj, name) == \E i \in 1..Len(obj) : obj[i].name = name
keyIndex(obj, name) == CHOOSE i \in 1..Len(obj) : obj[i].name = name

\* obj[name] = value for a name obj does not have
defineProperty(obj, name, value) ==
  IF isArrayIndex(name)
    THEN LET before == {i \in 1..Len(obj) :
                          /\ isArrayIndex(obj[i].name)
                          /\ toNumber(obj[i].name) < toNumber(name)}
             k == Cardinality(before)
         IN SubSeq(obj, 1, k) \o <<[name |-> name, value |-> value]>>
              \o SubSeq(obj, k + 1, Len(obj))
    ELSE Append(obj, [name |-> name, value |-> value])

\* buildProjectTree, the node created for a segment seen for the first time
newNode(project, isLast) ==
  [children |-> <<>>,
   fullPath |-> IF isLast THEN project.path ELSE Undefined,
   active |-> project.active,
   category |-> categoryOf(project),
   favorite |-> favoriteOf(project)]

touchNodeEverySegment(node, project, isLast) ==
  [node EXCEPT !.active = project.active,
               !.category = categoryOf(project),
               !.favorite = favoriteOf(project),
               !.fullPath = project.path]

touchNodeFirstWriter(node, project, isLast) ==
  [node EXCEPT !.fullPath = IF isLast THEN project.path ELSE @]

\* buildProjectTree, the else branch: a segment that already has a node
touchNode(node, project, isLast) ==
  [node EXCEPT !.active = project.active,
               !.category = categoryOf(project),
               !.favorite = favoriteOf(project),
               !.fullPath = IF isLast THEN project.path ELSE @]

(* The inner loop of buildProjectTree from segment parts[1] on, with current
   the object it has reached.  An inherited name that is the last segment
   writes the metadata on the runtime's function and leaves the tree alone;
   followed by another segment, current becomes undefined and the next
   current[part] throws a TypeError: ok is then FALSE. *)
RECURSIVE walk(_, _, _)
walk(current, parts, project) ==
  LET part == Head(parts)
      isLast == Len(parts) = 1
      below(node) == IF isLast
                       THEN [ok |-> TRUE, obj |-> node.children]
                       ELSE walk(node.children, Tail(parts), project)
  IN IF hasOwn(current, part)
       THEN LET k == keyIndex(current, part)
                node == touchNode(current[k].value, project, isLast)
                sub == below(node)
            IN [ok |-> sub.ok,
                obj |-> [current EXCEPT ![k].value = [node EXCEPT !.children = sub.obj]]]
       ELSE IF part \in InheritedNames
         THEN [ok |-> isLast, obj |-> current]
         ELSE LET node == newNode(project, isLast)
                  sub == below(node)
              IN [ok |-> sub.ok,
                  obj |-> defineProperty(current, part, [node EXCEPT !.children = sub.obj])]

\* the outer loop of buildProjectTree
RECURSIVE foldProjects(_, _)
foldProjects(root, list) ==
  IF list = <<>>
    THEN [ok |-> TRUE, obj |-> root]
    ELSE LET r == walk(root, splitLabel(Head(list).label), Head(list))
         IN IF r.ok THEN foldProjects(r.obj, Tail(list)) ELSE [ok |-> FALSE, obj |-> root]

\* new ProjectItem(...), without the project type and the icon
ProjectItem(label, collapsibleState, fullPath, children, active, category, isCategory, favorite) ==
  [label |-> label, collapsibleState |-> collapsibleState, fullPath |-> fullPath,
   children |-> children, active |-> active, category |-> category,
   isCategory |-> isCategory, favorite |-> favorite]

RECURSIVE convertToTreeItems(_)
convertToTreeItems(node) ==
  [i \in 1..Len(node) |->
     LET value == node[i].value
         children == convertToTreeItems(value.children)
     IN ProjectItem(node[i].name,
                    IF Len(children) > 0 THEN "Collapsed" ELSE "None",
                    value.fullPath, children, value.active, value.category,
                    FALSE, value.favorite)]

\* [ok, items]: ok is FALSE when the build threw
buildProjectTree(list) ==
  LET r == foldProjects(<<>>, list)
  IN IF r.ok THEN [ok |-> TRUE, items |-> convertToTreeItems(r.obj)]
             ELSE [ok |-> FALSE, items |-> <<>>]

\* buildTree, lines 517-540: the three buckets.  categoryGroups is an object
\* literal too: for an inherited name categoryGroups[id] is a function of the
\* runtime, no list is created and .push is not a function.
NoGroups == [favoriteProjects |-> <<>>, categoryGroups |-> <<>>, uncategorizedProjects |-> <<>>]

groupProjects(list) ==
  LET isFavorite(p) == favoriteOf(p)
      hasNoCategory(p) == ~truthy(categoryOf(p))
      ids == {categoryOf(list[i]) : i \in {j \in 1..Len(list) : truthy(categoryOf(list[j]))}}
  IN IF ids \cap InheritedNames # {}
       THEN [ok |-> FALSE, groups |-> NoGroups]
       ELSE [ok |-> TRUE,
             groups |->
               [favoriteProjects |-> SelectSeq(list, isFavorite),
                categoryGroups |->
                  [id \in ids |-> LET inCategory(p) == categoryOf(p) = id
                                  IN SelectSeq(list, inCategory)],
                uncategorizedProjects |-> SelectSeq(list, hasNoCategory)]]

FavoriteProjectsId == <<"favorite_projects">>

\* the folder item of a bucket
folderItem(label, children, category) ==
  ProjectItem(label, "Expanded", Undefined, children, TRUE, category, TRUE, FALSE)

NotBuilt == [built |-> FALSE, ok |-> TRUE, items |-> <<>>, groups |-> NoGroups]
Thrown == [built |-> TRUE, ok |-> FALSE, items |-> <<>>, groups |-> NoGroups]

\* the folders of the listed categories, in the order of the category list
RECURSIVE categoryItems(_, _)
categoryItems(cats, groups) ==
  IF cats = <<>> THEN [ok |-> TRUE, items |-> <<>>]
  ELSE LET category == Head(cats)
           rest == categoryItems(Tail(cats), groups)
           projectsInCategory ==
             IF category.id \in DOMAIN groups.categoryGroups
               THEN groups.categoryGroups[category.id] ELSE <<>>
       IN IF category.id = FavoriteProjectsId \/ projectsInCategory = <<>>
            THEN rest
            ELSE LET r == buildProjectTree(projectsInCategory)
                 IN [ok |-> r.ok /\ rest.ok,
                     items |-> <<folderItem(category.name, r.items, category.id)>> \o rest.items]

buildTree(list, cats, byCategory) ==
  IF ~byCategory
    THEN LET r == buildProjectTree(list)
         IN IF r.ok THEN [built |-> TRUE, ok |-> TRUE, items |-> r.items, groups |-> NoGroups]
                    ELSE Thrown
    ELSE LET g == groupProjects(list)
         IN IF ~g.ok THEN Thrown
            ELSE LET fav == buildProjectTree(g.groups.favoriteProjects)
                     cat == categoryItems(cats, g.groups)
                     unc == buildProjectTree(g.groups.uncategorizedProjects)
                 IN IF ~(fav.ok /\ cat.ok /\ unc.ok) THEN Thrown
                    ELSE [built |-> TRUE, ok |-> TRUE,
                          items |->
                            (IF g.groups.favoriteProjects = <<>> THEN <<>>
                             ELSE <<folderItem(<<"Favorite Projects">>, fav.items, <<"favorites">>)>>)
                            \o cat.items
                            \o (IF g.groups.uncategorizedProjects = <<>> THEN <<>>
                                ELSE <<folderItem(<<"Uncategorized">>, unc.items, Undefined)>>),
                          groups |-> g.groups]

\* getChildren() of the root of the project view
getChildren ==
  /\ tree' = buildTree(projects, categories, showCategories)
  /\ UNCHANGED <<projects, categories, showCategories>>
  /\ UNCHANGED <<notesProvider, terminalProvider, store, views>>

\* the provider of the other specifications: no project view
NoProjectView ==
  /\ projects = <<>>
  /\ categories = <<>>
  /\ showCategories = TRUE
  /\ tree = NotBuilt

(* The project lists of the model.  The labels have an empty label, an empty
   segment, both separators, a label that is a prefix of another, names that
   are array indices and a name every object inherits; the records have every
   combination of a favorite flag and a category that is set or not, a
   category the category list may not have, one named as an inherited
   property and the id of the old favorite category.  The i-th record of a
   list has the i-th path. *)
Labels ==
  {<<>>, <<"A">>, <<"A", "/", "B">>, <<"A", "\\", "C">>, <<"/", "A">>,
   <<"2">>, <<"1">>, Constructor, Constructor \o <<"/", "B">>}

C1Id == <<"c", "1">>
C2Id == <<"c", "2">>

Metas ==
  {[active |-> TRUE],
   [active |-> FALSE, category |-> C1Id, favorite |-> TRUE],
   [active |-> TRUE, category |-> C2Id, favorite |-> FALSE],
   [active |-> TRUE, favorite |-> TRUE],
   [active |-> TRUE, category |-> Constructor],
   [active |-> TRUE, category |-> FavoriteProjectsId]}

PathAt(i) == <<"/", "p", Digits[i + 1]>>

\* the list whose i-th record has the label labels[i] and the metadata metas[i]
projectList(labels, metas) ==
  [i \in DOMAIN labels |-> [label |-> labels[i], path |-> PathAt(i)] @@ metas[i]]

CategoryLists ==
  {<<[id |-> C2Id, name |-> <<"C", "2">>]>>,
   <<[id |-> C2Id, name |-> <<"C", "2">>], [id |-> C1Id, name |-> <<"C", "1">>]>>,
   <<[id |-> FavoriteProjectsId, name |-> <<"favorite_projects">>],
     [id |-> C1Id, name |-> <<"C", "1">>]>>}

----------------------------------------------------------------------------
(* TerminalProvider: the registry of the integrated terminals.

   A terminal of the window is known by the position at which it was created
   in terminals; the registry maps a terminal name to such a position. *)

MaxTerminals == 3   \* most terminals created in a behaviour

\* the writes of projects.json in a behaviour, the updates of the settings
\* that can be under way, the items of one drag
MaxSaves == 2
MaxUpdates == 3
MaxDragged == 2
MaxDrops == 1
MaxEdits == 1

\* `Terminal - ${projectName}`
terminalNameOf(projectName) == <<"Terminal - ">> \o projectName

\* Map.prototype.set and Map.prototype.delete
mapSet(map, key, value) ==
  [k \in DOMAIN map \cup {key} |-> IF k = key THEN value ELSE map[k]]
mapDelete(map, key) == [k \in DOMAIN map \ {key} |-> map[k]]

NotShown == [did |-> "none", terminal |-> 0, dir |-> <<>>, name |-> <<>>, liveBefore |-> {}]

\* what a call showed: did is "missing" (no such directory), "existing" or "created"
Showed(did, terminal, dir, projectName) ==
  [did |-> did, terminal |-> terminal, dir |-> dir, name |-> terminalNameOf(projectName),
   liveBefore |-> {t \in 1..Len(terminals) :
                     terminals[t].open /\ terminals[t].name = terminalNameOf(projectName)}]

\* fs.existsSync(workingDirectory) is the environment's choice
openIntegratedTerminal(workingDirectory, projectName) ==
  LET terminalName == terminalNameOf(projectName)
  IN /\ \E exists \in BOOLEAN :
          IF ~exists
            THEN /\ shown' = Showed("missing", 0, workingDirectory, projectName)
                 /\ UNCHANGED <<activeTerminals, terminals, closeListeners>>
            ELSE IF terminalName \in DOMAIN activeTerminals
              THEN /\ shown' = Showed("existing", activeTerminals[terminalName],
                                      workingDirectory, projectName)
                   /\ UNCHANGED <<activeTerminals, terminals, closeListeners>>
              ELSE /\ Len(terminals) < MaxTerminals
                   /\ terminals' = Append(terminals, [name |-> terminalName,
                                                      cwd |-> workingDirectory,
                                                      open |-> TRUE])
                   /\ activeTerminals' = mapSet(activeTerminals, terminalName, Len(terminals) + 1)
                   /\ closeListeners' = closeListeners \cup {Len(terminals) + 1}
                   /\ shown' = Showed("created", Len(terminals) + 1, workingDirectory, projectName)
     /\ UNCHANGED <<notesProvider, provider, store, views>>

\* the user closes terminal t: every registered listener is called with it,
\* and the one of t deletes the entry of t's name and disposes itself
closeTerminal(t) ==
  /\ terminals[t].open
  /\ terminals' = [terminals EXCEPT ![t].open = FALSE]
  /\ IF t \in closeListeners
       THEN /\ activeTerminals' = mapDelete(activeTerminals, terminals[t].name)
            /\ closeListeners' = closeListeners \ {t}
       ELSE UNCHANGED <<activeTerminals, closeListeners>>
  /\ UNCHANGED <<shown, notesProvider, provider, store, views>>

dispose ==
  /\ activeTerminals' = <<>>
  /\ UNCHANGED <<terminals, closeListeners, shown, notesProvider, provider, store, views>>

\* the provider of the other specifications: no terminal was opened
NoTerminals ==
  /\ activeTerminals = <<>>
  /\ terminals = <<>>
  /\ closeListeners = {}
  /\ shown = NotShown

\* two projects of the same name in different folders, and a third
ProjectNames == {<<"a", "p", "p">>, <<"w", "e", "b">>}
Folders == {<<"/", "x">>, <<"/", "y">>}

-----------------------------------------------------------------------------
(* projects.json and the three project providers.

   Every provider keeps its own copy of the records: what its last
   loadProjects() read from the file and let through its two filters.  A
   provider writes the file from that copy. *)

\* the own state of a provider that the commands touch
View(list, filter, showInactive) ==
  [projects |-> list, searchFilter |-> filter, showInactiveProjects |-> showInactive]

\* label.toLowerCase().includes(filter) || path.toLowerCase().includes(filter)
matchesFilter(project, filter) ==
  \/ includes(toLowerCase(project.label), filter)
  \/ includes(toLowerCase(project.path), filter)

\* loadProjects(): the records of the file f, without the inactive ones unless
\* showInactiveProjects, then without the ones the search filter does not match
loadProjects(view, f) ==
  LET byActive == IF ~view.showInactiveProjects
                    THEN SelectSeq(f, LAMBDA project : project.active = TRUE)
                    ELSE f
  IN IF view.searchFilter # <<>>
       THEN SelectSeq(byActive, LAMBDA project : matchesFilter(project, view.searchFilter))
       ELSE byActive

\* refresh(): loadProjects() under the flag the provider holds, and only then
\* loadShowInactiveProjects(), which takes the flag from the settings
refreshView(view, f, cfg) ==
  [view EXCEPT !.projects = loadProjects(view, f), !.showInactiveProjects = cfg]

\* toggleShowInactiveProjects(): the flag is flipped and the list loaded under
\* it; the update of the settings is started and not awaited
toggleShowInactiveProjects(view, f) ==
  LET flipped == [view EXCEPT !.showInactiveProjects = ~@]
  IN [flipped EXCEPT !.projects = loadProjects(flipped, f)]

\* projects.findIndex(p => p.path === path), counted from 1, 0 when there is none
findIndex(list, path) ==
  LET hits == {i \in 1..Len(list) : list[i].path = path}
  IN IF hits = {} THEN 0 ELSE Min(hits)

\* project.favorite = v
setFavorite(project, v) == ("favorite" :> v) @@ project

\* project.category = id; JSON.stringify leaves a property out that is undefined
setCategory(project, id) ==
  IF id = Undefined THEN [k \in DOMAIN project \ {"category"} |-> project[k]]
  ELSE ("category" :> id) @@ project

\* the list after toggleProjectFavorite(projectPath) changed it
toggleProjectFavorite(list, projectPath) ==
  LET i == findIndex(list, projectPath)
  IN IF i = 0 THEN list
     ELSE [list EXCEPT ![i] = setFavorite(@, ~favoriteOf(@))]

\* the list after assignProjectToCategory(projectPath, categoryId) changed it
assignProjectToCategory(list, projectPath, categoryId) ==
  LET i == findIndex(list, projectPath)
  IN IF i = 0 THEN list
     ELSE [list EXCEPT ![i] = setCategory(@, categoryId)]

\* the list after the forEach of removeCategory(categoryId)
removeCategory(list, categoryId) ==
  [i \in 1..Len(list) |->
     IF categoryOf(list[i]) = categoryId THEN setCategory(list[i], Undefined) ELSE list[i]]

\* list.splice(i, 1), i counted from 1
removeAt(list, i) == SubSeq(list, 1, i - 1) \o SubSeq(list, i + 1, Len(list))

\* list.splice(start, 0, ...items): start counted from 0, from the end when negative
spliceIn(list, start, items) ==
  LET at == IF start < 0 THEN Max({Len(list) + start, 0}) ELSE Min({start, Len(list)})
  IN SubSeq(list, 1, at) \o items \o SubSeq(list, at + 1, Len(list))

\* the list after the loop of moveProjectsToEnd(dragData); of a dragged item
\* only the path is read
RECURSIVE moveProjectsToEnd(_, _)
moveProjectsToEnd(list, dragData) ==
  IF dragData = <<>> THEN list
  ELSE LET i == findIndex(list, Head(dragData))
       IN moveProjectsToEnd(IF i = 0 THEN list ELSE Append(removeAt(list, i), list[i]),
                            Tail(dragData))

\* the list after the loop of assignProjectsToCategory(dragData, categoryId)
RECURSIVE assignProjectsToCategory(_, _, _)
assignProjectsToCategory(list, dragData, categoryId) ==
  IF dragData = <<>> THEN list
  ELSE assignProjectsToCategory(assignProjectToCategory(list, Head(dragData), categoryId),
                                Tail(dragData), categoryId)

\* the first loop of reorderProjects: the dragged records leave the list in
\* the order they were dragged
RECURSIVE takeOut(_, _, _)
takeOut(list, dragData, movedProjects) ==
  IF dragData = <<>> THEN [rest |-> list, movedProjects |-> movedProjects]
  ELSE LET i == findIndex(list, Head(dragData))
       IN IF i = 0 THEN takeOut(list, Tail(dragData), movedProjects)
          ELSE takeOut(removeAt(list, i), Tail(dragData), Append(movedProjects, list[i]))

\* the list after reorderProjects(dragData, target) with the target in the
\* list: the target is looked up again once the dragged records are out, and
\* findIndex gives -1 for a target that left with them
reorderProjects(list, dragData, targetPath) ==
  LET out == takeOut(list, dragData, <<>>)
      newTargetIndex == findIndex(out.rest, targetPath) - 1
  IN spliceIn(out.rest, newTargetIndex, out.movedProjects)

Providers == {"all", "categorized", "git"}

\* the state the commands work on: the file, the three providers' own state,
\* the started updates of the settings, the undelivered watcher events, the
\* writes of projects.json by this command and whether the categorized view
\* was told to redraw
Sys ==
  [file |-> projectsFile,
   categorized |-> View(projects, projectSearchFilter, showInactiveProjects),
   all |-> peers.all, git |-> peers.git,
   categories |-> categories, categoriesFile |-> categoriesFile,
   updates |-> settingUpdates, events |-> watcherEvents, writes |-> 0, fired |-> FALSE]

\* p.refresh(); only the categorized provider loads the categories
refreshOf(s, p) ==
  [s EXCEPT ![p] = refreshView(@, s.file, setting),
            !.categories = IF p = "categorized" THEN s.categoriesFile ELSE @,
            !.fired = @ \/ p = "categorized"]

\* p.saveProjects() once p.projects became list, and the refresh() after it:
\* the file is what p holds
savedOf(s, p, list) ==
  refreshOf([s EXCEPT ![p].projects = list, !.file = list,
                      !.writes = @ + 1, !.events = @ + 1], p)

\* p.toggleShowInactiveProjects()
toggleOf(s, p) ==
  [s EXCEPT ![p] = toggleShowInactiveProjects(@, s.file),
            !.updates = Append(@, ~s[p].showInactiveProjects),
            !.fired = @ \/ p = "categorized"]

\* p.setSearchFilter(filter), p.clearSearchFilter()
setSearchFilterOf(s, p, filter) ==
  refreshOf([s EXCEPT ![p].searchFilter = toLowerCase(filter)], p)

clearSearchFilterOf(s, p) == refreshOf([s EXCEPT ![p].searchFilter = <<>>], p)

\* what the watcher and several commands do: the three providers refresh in turn
refreshAll(s) == refreshOf(refreshOf(refreshOf(s, "all"), "categorized"), "git")

\* the history of a command: its name and arguments, and the flag the
\* categorized view held before the last toggle (<<>> before the first)
Command(op, p, dragData, target) ==
  [op |-> op, provider |-> p, dragData |-> dragData, target |-> target,
   toggledFrom |-> lastCommand.toggledFrom]

NoCommand ==
  [op |-> "none", provider |-> "none", dragData |-> <<>>, target |-> Undefined,
   toggledFrom |-> <<>>]

\* the state a command leaves
Becomes(s, command) ==
  /\ saves + s.writes <= MaxSaves
  /\ projectsFile' = s.file
  /\ projects' = s.categorized.projects
  /\ projectSearchFilter' = s.categorized.searchFilter
  /\ showInactiveProjects' = s.categorized.showInactiveProjects
  /\ peers' = [all |-> s.all, git |-> s.git]
  /\ categories' = s.categories
  /\ categoriesFile' = s.categoriesFile
  /\ settingUpdates' = s.updates
  /\ watcherEvents' = s.events
  /\ saves' = saves + s.writes
  /\ tree' = IF s.fired THEN NotBuilt ELSE tree
  /\ lastCommand' = command
  /\ UNCHANGED <<setting, showCategories, notesProvider, terminalProvider>>

\* messProjectManager.refreshProjects
refreshProjectsCommand ==
  Becomes(refreshAll(Sys), Command("refreshProjects", "all", <<>>, Undefined))

\* the file watcher delivers a change of projects.json
onDidChange ==
  /\ watcherEvents > 0
  /\ Becomes(refreshAll([Sys EXCEPT !.events = @ - 1]),
             Command("onDidChange", "all", <<>>, Undefined))

\* messProjectManager.toggleShowInactive: each provider flips its own flag
toggleShowInactiveCommand ==
  /\ Len(settingUpdates) + Cardinality(Providers) <= MaxUpdates
  /\ Becomes(toggleOf(toggleOf(toggleOf(Sys, "all"), "categorized"), "git"),
             [Command("toggleShowInactive", "all", <<>>, Undefined)
                EXCEPT !.toggledFrom = <<showInactiveProjects>>])

\* a started config.update() lands in the settings
settingApplied ==
  /\ settingUpdates # <<>>
  /\ setting' = Head(settingUpdates)
  /\ settingUpdates' = Tail(settingUpdates)
  /\ UNCHANGED <<projectsFile, categoriesFile, watcherEvents, saves, views, provider,
                 notesProvider, terminalProvider>>

\* messProjectManager.searchProjects with the term the user entered
searchProjectsCommand(searchTerm) ==
  Becomes(setSearchFilterOf(setSearchFilterOf(setSearchFilterOf(Sys, "all", searchTerm),
                                              "categorized", searchTerm), "git", searchTerm),
          Command("searchProjects", "all", <<>>, searchTerm))

\* messProjectManager.clearSearch
clearSearchCommand ==
  Becomes(clearSearchFilterOf(clearSearchFilterOf(clearSearchFilterOf(Sys, "all"),
                                                  "categorized"), "git"),
          Command("clearSearch", "all", <<>>, Undefined))

\* messProjectManager.toggleFavorite on the item of projectPath:
\* categorizedProvider.toggleProjectFavorite, then allProjectsProvider.refresh()
toggleFavoriteCommand(projectPath) ==
  LET s == IF findIndex(projects, projectPath) = 0 THEN Sys
           ELSE savedOf(Sys, "categorized", toggleProjectFavorite(projects, projectPath))
  IN Becomes(refreshOf(s, "all"),
             Command("toggleFavorite", "categorized", <<projectPath>>, Undefined))

\* messProjectManager.assignCategory on the item of projectPath, with the
\* picked category (undefined for "Uncategorized")
assignCategoryCommand(projectPath, categoryId) ==
  LET s == IF findIndex(projects, projectPath) = 0 THEN Sys
           ELSE savedOf(Sys, "categorized",
                        assignProjectToCategory(projects, projectPath, categoryId))
  IN Becomes(refreshOf(s, "all"),
             Command("assignCategory", "categorized", <<projectPath>>, categoryId))

\* messProjectManager.removeCategory with the picked category:
\* categorizedProvider.removeCategory writes both files and refreshes
removeCategoryCommand(categoryId) ==
  LET kept == SelectSeq(categories, LAMBDA c : c.id # categoryId)
      s == savedOf([Sys EXCEPT !.categoriesFile = kept], "categorized",
                   removeCategory(projects, categoryId))
  IN Becomes(refreshOf(s, "all"),
             Command("removeCategory", "categorized", <<>>, categoryId))

\* messProjectManager.saveCurrentLocation: the file is read, a record of the
\* current folder is pushed, the file is written, the three providers refresh
CurrentLocation == [label |-> <<"w">>, path |-> <<"/", "w">>, active |-> TRUE]

saveCurrentLocationCommand ==
  Becomes(refreshAll([Sys EXCEPT !.file = Append(@, CurrentLocation),
                                 !.writes = @ + 1, !.events = @ + 1]),
          Command("saveCurrentLocation", "none", <<>>, Undefined))

\* the items of a view a drop can land on
NoTarget == [none |-> TRUE]

groupTarget(category) == [isCategory |-> TRUE, category |-> category, fullPath |-> Undefined]

projectTarget(project) ==
  [isCategory |-> FALSE, category |-> categoryOf(project), fullPath |-> project.path]

DropTargets(p) ==
  LET list == Sys[p].projects
      items == IF p = "categorized" THEN buildTree(list, categories, TRUE).items ELSE <<>>
  IN {NoTarget}
       \cup {projectTarget(list[i]) : i \in 1..Len(list)}
       \cup {groupTarget(items[i].category) : i \in {j \in 1..Len(items) : items[j].isCategory}}

\* what handleDrag can put into the transfer: items of the view, in the order
\* of the selection
DragData(p) ==
  LET paths == {Sys[p].projects[i].path : i \in 1..Len(Sys[p].projects)}
  IN {<<a>> : a \in paths}
       \cup (IF MaxDragged < 2 THEN {}
             ELSE {<<a, b>> : a \in paths, b \in paths} \ {<<a, a>> : a \in paths})

\* handleDrop(target, dataTransfer) of the provider p
handleDrop(p, target, dragData) ==
  LET list == Sys[p].projects
      s == IF target = NoTarget
             THEN savedOf(Sys, p, moveProjectsToEnd(list, dragData))
           ELSE IF target.isCategory
             THEN savedOf(Sys, p, assignProjectsToCategory(list, dragData, target.category))
           ELSE IF findIndex(list, target.fullPath) = 0
             THEN Sys
           ELSE savedOf(Sys, p, reorderProjects(list, dragData, target.fullPath))
  IN Becomes(s, Command("handleDrop", p, dragData, target))

\* the state once the three providers are constructed over the file f, the
\* categories cats and the setting cfg, and refreshed when asked: the
\* constructor loads the list before it reads the setting
Constructed(f, cats, cfg, refreshed) ==
  LET made == refreshView(View(<<>>, <<>>, FALSE), f, cfg)
      view == IF refreshed THEN refreshView(made, f, cfg) ELSE made
  IN /\ projectsFile = f
     /\ categoriesFile = cats
     /\ setting = cfg
     /\ settingUpdates = <<>>
     /\ watcherEvents = 0
     /\ saves = 0
     /\ projects = view.projects
     /\ showInactiveProjects = view.showInactiveProjects
     /\ projectSearchFilter = view.searchFilter
     /\ peers = [all |-> view, git |-> view]
     /\ lastCommand = NoCommand

\* the project providers of the specifications of the other components
NoStore ==
  /\ projectsFile = <<>>
  /\ categoriesFile = <<>>
  /\ setting = FALSE
  /\ settingUpdates = <<>>
  /\ watcherEvents = 0
  /\ saves = 0
  /\ showInactiveProjects = FALSE
  /\ projectSearchFilter = <<>>
  /\ peers = [all |-> View(<<>>, <<>>, FALSE), git |-> View(<<>>, <<>>, FALSE)]
  /\ lastCommand = NoCommand

(* The files of the model.  The first record matches the search term by its
   path only, the second by its label only, the third not at all; a record is
   active and plain, or a favorite of the category c1, or inactive in c1. *)
StoreProjects ==
  << [label |-> <<"x">>, path |-> <<"/", "B">>],
     [label |-> <<"a", "B">>, path |-> <<"/", "p", "2">>],
     [label |-> <<"c">>, path |-> <<"/", "p", "3">>] >>

StoreMetas ==
  {[active |-> TRUE],
   [active |-> TRUE, category |-> C1Id, favorite |-> TRUE],
   [active |-> FALSE, category |-> C1Id]}

StoreFiles ==
  {[i \in DOMAIN StoreProjects |-> StoreProjects[i] @@ metas[i]] :
     metas \in [DOMAIN StoreProjects -> StoreMetas]}

StoreCategories == <<[id |-> C1Id, name |-> <<"C", "1">>]>>

ProjectSearchTerms == {<<"B">>}

----------------------------------------------------------------------------
(* Specifications *)

\* the folder at activation, before the constructor's loadSheets
FirstFolder == [f \in {BakFile} |-> EditText]

InitWith(mayFail) ==
  /\ NoProjectView
  /\ NoTerminals
  /\ NoStore
  /\ text = <<>>
  /\ parsed = NotParsed
  /\ faulty = mayFail
  /\ searchFilter = <<>>
  /\ \E r \in Loads([fs |-> FirstFolder, sheets |-> <<>>]) :
       /\ fs = r.fs
       /\ sheets = r.sheets
       /\ last = DidLoad("constructor", r)

Init == InitWith(FALSE)

Next ==
  \/ refresh
  \/ \E name \in SheetNames : addSheet(name)
  \/ \E id \in NewIds \cup {TipsId}, name \in RenameNames : updateSheet(id, name)
  \/ \E id \in NewIds \cup {TipsId} : deleteSheet(id)
  \/ \E filter \in SearchTerms : setSearchFilter(filter)
  \/ clearSearchFilter
  \/ getChildrenRoot
  \/ \E i \in 1..Len(sheets) : getChildrenSheet(i)
  \/ \E i \in 1..Len(sheets) : \E j \in 1..Len(sheets[i].headers) : getChildrenHeader(i, j)
  \/ \E file \in EditedFiles, content \in EditTexts : externalWrite(file, content)
  \/ \E file \in EditedFiles : externalDelete(file)
  \/ externalRename(TipsFile, BakFile)

Spec == Init /\ [][Next]_vars

\* the provider over a file system that may fail any read, write or listing
InitFaulty == InitWith(TRUE)

NextFaulty ==
  \/ refresh
  \/ \E name \in SheetNames : addSheet(name)
  \/ \E id \in NewIds, name \in RenameNames : updateSheet(id, name)
  \/ \E id \in NewIds \cup {TipsId} : deleteSheet(id)

SpecFaulty == InitFaulty /\ [][NextFaulty]_vars

\* the parser alone: Init draws the text, parse applies parseSheetContent to it
InitParse ==
  /\ NoProjectView
  /\ NoTerminals
  /\ NoStore
  /\ text \in ParseInputs
  /\ parsed = NotParsed
  /\ fs = <<>>
  /\ faulty = FALSE
  /\ sheets = <<>>
  /\ searchFilter = <<>>
  /\ last = Did("none", TRUE, FALSE, FALSE)

parse ==
  /\ ~parsed.done
  /\ \E slow \in BOOLEAN :
       parsed' = [done |-> TRUE, headers |-> parseSheetContent(text, slow)]
  /\ UNCHANGED <<outside, text, fs, faulty, sheets, searchFilter, last>>

NextParse == parse

SpecParse == InitParse /\ [][NextParse]_vars

\* the project view alone: Init draws the project list and the category list
\* (the constructor loads the categories only when it shows them)
InitTree ==
  /\ showCategories \in BOOLEAN
  /\ categories \in (IF showCategories THEN CategoryLists ELSE {<<>>})
  /\ \E n \in 0..MaxProjects :
       \E labels \in [1..n -> Labels], metas \in [1..n -> Metas] :
         Constructed(projectList(labels, metas), categories, TRUE, TRUE)
  /\ tree = NotBuilt
  /\ NoTerminals
  /\ text = <<>>
  /\ parsed = NotParsed
  /\ fs = <<>>
  /\ faulty = FALSE
  /\ sheets = <<>>
  /\ searchFilter = <<>>
  /\ last = Did("none", TRUE, FALSE, FALSE)

NextTree == getChildren

SpecTree == InitTree /\ [][NextTree]_vars

\* the terminal registry alone
InitTerminal ==
  /\ NoTerminals
  /\ NoProjectView
  /\ NoStore
  /\ text = <<>>
  /\ parsed = NotParsed
  /\ fs = <<>>
  /\ faulty = FALSE
  /\ sheets = <<>>
  /\ searchFilter = <<>>
  /\ last = Did("none", TRUE, FALSE, FALSE)

NextTerminal ==
  \/ \E dir \in Folders, name \in ProjectNames : openIntegratedTerminal(dir, name)
  \/ \E t \in 1..Len(terminals) : closeTerminal(t)
  \/ dispose

SpecTerminal == InitTerminal /\ [][NextTerminal]_vars

\* the categorized view over every file of the model: its commands, the
\* drops on it, the settings catching up
InitProjects ==
  /\ showCategories = TRUE
  /\ categories = StoreCategories
  /\ tree = NotBuilt
  /\ \E f \in StoreFiles, cfg \in BOOLEAN :
       Constructed(f, StoreCategories, cfg, FALSE)
  /\ NoTerminals
  /\ text = <<>>
  /\ parsed = NotParsed
  /\ fs = <<>>
  /\ faulty = FALSE
  /\ sheets = <<>>
  /\ searchFilter = <<>>
  /\ last = Did("none", TRUE, FALSE, FALSE)

NextProjects ==
  \/ refreshProjectsCommand
  \/ toggleShowInactiveCommand
  \/ settingApplied
  \/ \E searchTerm \in ProjectSearchTerms : searchProjectsCommand(searchTerm)
  \/ clearSearchCommand
  \/ /\ saves < MaxEdits
     /\ \/ \E i \in 1..Len(projects) : toggleFavoriteCommand(projects[i].path)
        \/ \E i \in 1..Len(projects),
              c \in {Undefined} \cup {categories[k].id : k \in 1..Len(categories)} :
             assignCategoryCommand(projects[i].path, c)
        \/ \E k \in 1..Len(categories) : removeCategoryCommand(categories[k].id)
  \/ getChildren

SpecProjects == InitProjects /\ [][NextProjects]_vars

\* the drops on the categorized view, over every file of the model
NextDrop ==
  \/ /\ saves < MaxDrops
     /\ \E target \in DropTargets("categorized"), dragData \in DragData("categorized") :
          handleDrop("categorized", target, dragData)
  \/ refreshProjectsCommand
  \/ getChildren

SpecDrop == InitProjects /\ [][NextDrop]_vars

\* the three views over one file of two active records: commands, drops on
\* any view, writes by saveCurrentLocation, watcher events and the settings
\* in any order
SharedFile ==
  << StoreProjects[1] @@ [active |-> TRUE], StoreProjects[2] @@ [active |-> TRUE] >>

InitShared ==
  /\ showCategories = TRUE
  /\ categories = StoreCategories
  /\ tree = NotBuilt
  /\ Constructed(SharedFile, StoreCategories, FALSE, FALSE)
  /\ NoTerminals
  /\ text = <<>>
  /\ parsed = NotParsed
  /\ fs = <<>>
  /\ faulty = FALSE
  /\ sheets = <<>>
  /\ searchFilter = <<>>
  /\ last = Did("none", TRUE, FALSE, FALSE)

NextShared ==
  \/ refreshProjectsCommand
  \/ onDidChange
  \/ toggleShowInactiveCommand
  \/ settingApplied
  \/ saveCurrentLocationCommand
  \/ \E i \in 1..Len(projects) : toggleFavoriteCommand(projects[i].path)
  \/ \E p \in Providers : \E target \in DropTargets(p), dragData \in DragData(p) :
       handleDrop(p, target, dragData)

SpecShared == InitShared /\ [][NextShared]_vars

----------------------------------------------------------------------------
(* Properties of the parser, stated on positions of the text and not by the
   parser's own loop *)

\* the k-th smallest element of a finite set of numbers, as a sequence
Ascending(S) ==
  [k \in 1..Cardinality(S) |-> CHOOSE x \in S : Cardinality({y \in S : y < x}) = k - 1]

\* a text without its leading and trailing white space
TrimOf(s) ==
  LET ink == {i \in 1..Len(s) : ~IsSpace(s[i])}
  IN IF ink = {} THEN <<>> ELSE SubSeq(s, Min(ink), Max(ink))

NonBlank(line) == \E i \in 1..Len(line) : ~IsSpace(line[i])

\* the length of the run of spaces and tabs a line starts with
LeadLen(line) ==
  Max({k \in 0..Len(line) : \A i \in 1..k : line[i] \in {" ", "\t"}})

LevelOf(line) ==
  ( Cardinality({i \in 1..LeadLen(line) : line[i] = " "})
    + 4 * Cardinality({i \in 1..LeadLen(line) : line[i] = "\t"}) ) \div 4

TextLines == split(text, "\n")

\* the positions of the lines that open a header, and of the level-2 lines
\* that come after one
HeaderLines == {i \in 1..Len(TextLines) : NonBlank(TextLines[i]) /\ LevelOf(TextLines[i]) = 1}

NoteLines ==
  {i \in 1..Len(TextLines) :
     /\ NonBlank(TextLines[i])
     /\ LevelOf(TextLines[i]) = 2
     /\ \E h \in HeaderLines : h < i}

\* the level-2 lines that come before every header
OrphanLines ==
  {i \in 1..Len(TextLines) :
     /\ NonBlank(TextLines[i])
     /\ LevelOf(TextLines[i]) = 2
     /\ \A h \in HeaderLines : h > i}

\* the note lines that belong to the header opened at line h
NoteLinesOf(h) ==
  {i \in NoteLines : h < i /\ \A g \in HeaderLines : g > h => i < g}

\* C3: the headers are the level-1 lines in source order, each named by its
\* trimmed line; the notes of a header are the level-2 lines between it and
\* the next header, in source order; a level-2 line before any header (and a
\* line of any other level, and a blank line) gives nothing.
C3_ParseStructure ==
  parsed.done =>
    /\ Len(parsed.headers) = Cardinality(HeaderLines)
    /\ \A k \in 1..Len(parsed.headers) :
         LET h == Ascending(HeaderLines)[k]
             from == Ascending(NoteLinesOf(h))
             notes == parsed.headers[k].notes
         IN /\ parsed.headers[k].name = TrimOf(TextLines[h])
            /\ Len(notes) = Len(from)
            /\ \A m \in 1..Len(notes) :
                 notes[m] = makeNote(TrimOf(TextLines[from[m]]),
                                     TrimOf(TextLines[h]), notes[m].createdAt)

\* C3 witness: a parsed text whose first line is a level-2 line before any
\* header (dropped), followed by a header that received a note
C3_Witness ==
  /\ parsed.done
  /\ OrphanLines # {}
  /\ Len(parsed.headers) = 1
  /\ Len(parsed.headers[1].notes) = 1
  /\ Cardinality(NoteLines) = 1

----------------------------------------------------------------------------
(* C4: the indentation boundaries *)

\* headers without the time stamps of their notes
Shape(headers) ==
  [k \in 1..Len(headers) |->
     [headers[k] EXCEPT !.notes =
        [m \in 1..Len(headers[k].notes) |-> [headers[k].notes[m] EXCEPT !.createdAt = 0]]]]

\* the parse of the first n lines of the text, and of the text without line i
ParseUpTo(n) == Shape(parseSheetContent(join(SubSeq(TextLines, 1, n), Nl), FALSE))

ParseWithout(i) ==
  Shape(parseSheetContent(
          join(SubSeq(TextLines, 1, i - 1) \o SubSeq(TextLines, i + 1, Len(TextLines)), Nl),
          FALSE))

\* line i is non-blank and starts with exactly n spaces (and no tab)
LeadingSpaces(i, n) ==
  /\ NonBlank(TextLines[i])
  /\ LeadLen(TextLines[i]) = n
  /\ \A j \in 1..n : TextLines[i][j] = " "

\* line i appends a header named by its trimmed text
ProducesHeader(i) ==
  ParseUpTo(i) = Append(ParseUpTo(i - 1), [name |-> TrimOf(TextLines[i]), notes |-> <<>>])

\* line i appends one note to the most recent header, when there is one
ProducesNote(i) ==
  LET before == ParseUpTo(i - 1)
      after == ParseUpTo(i)
  IN before # <<>> =>
       /\ Len(after) = Len(before)
       /\ \A k \in 1..(Len(before) - 1) : after[k] = before[k]
       /\ Len(after[Len(after)].notes) = Len(before[Len(before)].notes) + 1
       /\ SubSeq(after[Len(after)].notes, 1, Len(before[Len(before)].notes))
            = before[Len(before)].notes

\* line i gives no element and leaves the current header as it was: the text
\* parses as it does without the line
ProducesNothing(i) ==
  /\ ParseUpTo(i) = ParseUpTo(i - 1)
  /\ Shape(parsed.headers) = ParseWithout(i)

BoundaryRule(ignoredFrom) ==
  parsed.done =>
    \A i \in 1..Len(TextLines) :
      /\ LeadingSpaces(i, 4) => ProducesHeader(i)
      /\ LeadingSpaces(i, 8) => ProducesNote(i)
      /\ /\ LeadingSpaces(i, LeadLen(TextLines[i]))
         /\ (LeadLen(TextLines[i]) <= 3 \/ LeadLen(TextLines[i]) >= ignoredFrom)
         => ProducesNothing(i)

\* C4 as first stated: 4 leading spaces give a header, 8 a note under the most
\* recent header, and 3 or fewer or 9 or more give nothing.
C4_Original == BoundaryRule(9)

\* C4 as amended: 4 leading spaces give a header, 8 a note under the most
\* recent header, and 3 or fewer or 12 or more give nothing (9 to 11 leading
\* spaces are still level 2 and give a note).
C4_Boundary == BoundaryRule(12)

\* C4 witness: a header, then a line of 12 leading spaces, then a line of 8
\* that lands under that header
C4_Witness ==
  /\ parsed.done
  /\ Len(TextLines) = 3
  /\ LeadingSpaces(1, 4)
  /\ LeadingSpaces(2, 12)
  /\ LeadingSpaces(3, 8)
  /\ Len(parsed.headers) = 1
  /\ Len(parsed.headers[1].notes) = 1

----------------------------------------------------------------------------
(* C5 to C7: the note of one accepted level-2 line *)

RECURSIVE flatten(_)
flatten(headers) ==
  IF headers = <<>> THEN <<>> ELSE Head(headers).notes \o flatten(Tail(headers))

\* every note of the result, in order, and the trimmed line each came from
AllNotes == flatten(parsed.headers)

SourceOf(m) == TrimOf(TextLines[Ascending(NoteLines)[m]])

IsPrefix(p, s) == Len(p) <= Len(s) /\ SubSeq(s, 1, Len(p)) = p

\* the trimmed line without the command marker and the white space after it
Stripped(t) == IF t[1] = ">" THEN TrimOf(Tail(t)) ELSE t

\* C5: a note is a Command iff its trimmed line starts with '>'; the content
\* of a Command starts from the line without the marker and the white space
\* after it, the content of a PlainNote from the whole trimmed line.
C5_CommandDetection ==
  parsed.done =>
    /\ Len(AllNotes) = Cardinality(NoteLines)
    /\ \A m \in 1..Len(AllNotes) :
         /\ AllNotes[m].type \in {"command", "note"}
         /\ AllNotes[m].type = "command" <=> SourceOf(m)[1] = ">"
         /\ AllNotes[m].type = "command" =>
              IsPrefix(AllNotes[m].content, TrimOf(Tail(SourceOf(m))))
         /\ AllNotes[m].type = "note" => IsPrefix(AllNotes[m].content, SourceOf(m))

\* C5 witness: a command whose marker is followed by white space
C5_Witness ==
  /\ parsed.done
  /\ \E m \in 1..Len(AllNotes) :
       /\ AllNotes[m].type = "command"
       /\ Len(SourceOf(m)) > 2
       /\ SourceOf(m)[2] = " "
       /\ AllNotes[m].content # <<>>

\* where the separator, a space and then a hash, stands in a text
SeparatorsIn(s) == {p \in 1..(Len(s) - 1) : s[p] = " " /\ s[p + 1] = "#"}

\* C6: with a separator in the marker-stripped text, description is the
\* trimmed text after its first occurrence and content the trimmed text
\* before it; without one, description is empty and content the whole text.
\* So description is non-empty only with a separator, and content holds none.
C6_Description ==
  parsed.done =>
    \A m \in 1..Len(AllNotes) :
      LET s == Stripped(SourceOf(m))
          note == AllNotes[m]
      IN /\ SeparatorsIn(s) # {} =>
              /\ note.description = TrimOf(SubSeq(s, Min(SeparatorsIn(s)) + 2, Len(s)))
              /\ note.content = TrimOf(SubSeq(s, 1, Min(SeparatorsIn(s)) - 1))
         /\ SeparatorsIn(s) = {} => note.description = <<>> /\ note.content = s
         /\ note.description # <<>> => SeparatorsIn(s) # {}
         /\ SeparatorsIn(note.content) = {}

\* C6 witness: a line with two separators; the description keeps the second
C6_Witness ==
  /\ parsed.done
  /\ \E m \in 1..Len(AllNotes) :
       /\ Cardinality(SeparatorsIn(Stripped(SourceOf(m)))) = 2
       /\ SeparatorsIn(AllNotes[m].description) # {}
       /\ AllNotes[m].content # <<>>

\* the words of a text: where each starts and where it ends
WordStarts(s) == {i \in 1..Len(s) : ~IsSpace(s[i]) /\ (i = 1 \/ IsSpace(s[i - 1]))}
WordEnds(s) == {i \in 1..Len(s) : ~IsSpace(s[i]) /\ (i = Len(s) \/ IsSpace(s[i + 1]))}
WordOf(s, k) == SubSeq(s, Ascending(WordStarts(s))[k], Ascending(WordEnds(s))[k])

\* C7: a content of at most 3 words is its own title; a longer one has the
\* title of its first 3 words, a single space between them, and then '...'.
C7_Title ==
  parsed.done =>
    \A m \in 1..Len(AllNotes) :
      LET c == AllNotes[m].content
      IN IF Cardinality(WordStarts(c)) <= 3
           THEN AllNotes[m].title = c
           ELSE AllNotes[m].title =
                  WordOf(c, 1) \o <<" ">> \o WordOf(c, 2) \o <<" ">> \o WordOf(c, 3)
                    \o <<".", ".", ".">>

\* C7 witness: a content of exactly 4 words, whose title is cut
C7_Witness ==
  /\ parsed.done
  /\ \E m \in 1..Len(AllNotes) :
       /\ Cardinality(WordStarts(AllNotes[m].content)) = 4
       /\ AllNotes[m].title # AllNotes[m].content

----------------------------------------------------------------------------
(* Properties of the sheet collection *)

\* headers without what a load adds to the parse: time stamps and sheet names
Bare(headers) ==
  [k \in 1..Len(headers) |->
     [headers[k] EXCEPT !.notes =
        [m \in 1..Len(headers[k].notes) |->
           [headers[k].notes[m] EXCEPT !.createdAt = 0, !.sheetName = <<>>]]]]

TipsAt == {i \in 1..Len(sheets) : sheets[i].id = TipsId}

\* C1: after every load that wrote the template, exactly one sheet has the id
\* useful-tips, it is the first, and its headers and notes are those of a
\* fresh parse of the template, whatever the useful-tips file held before.
C1_ReservedSheet ==
  last.loaded /\ last.wrote =>
    /\ TipsAt = {1}
    /\ sheets[1].content = usefulTipsContent
    /\ Bare(sheets[1].headers) = Bare(parseSheetContent(usefulTipsContent, FALSE))
    /\ TipsFile \in DOMAIN fs
    /\ fs[TipsFile] = usefulTipsContent

\* C1 witness: a load made after the template file was renamed away (the
\* renamed copy is still in the folder), with other sheets in the list
C1_Witness ==
  /\ last.loaded
  /\ last.wrote
  /\ BakFile \in DOMAIN fs
  /\ fs[BakFile] = usefulTipsContent
  /\ TipsAt = {1}
  /\ Len(sheets) >= 2

SheetMutations == {"addSheet", "updateSheet", "deleteSheet"}

SheetFiles == {f \in DOMAIN fs : endsWithTxt(f)}

\* C2: after a mutation that ran to its end, the list is a re-derivation of
\* the folder: one sheet for each .txt file and none without one, each with
\* the text of its file and the parse of that text.
C2_FaithfulReload ==
  last.op \in SheetMutations /\ last.ok =>
    /\ \A f \in SheetFiles : Cardinality({i \in 1..Len(sheets) : sheets[i].filePath = f}) = 1
    /\ \A i \in 1..Len(sheets) :
         /\ sheets[i].filePath \in SheetFiles
         /\ sheets[i].content = fs[sheets[i].filePath]
         /\ Bare(sheets[i].headers) = Bare(parseText(fs[sheets[i].filePath], FALSE))

\* C2 witness: addSheet has ended with three sheets in the list, one of them
\* from a file that was edited by hand since it was made
C2_Witness ==
  /\ last.op = "addSheet"
  /\ last.ok
  /\ Len(sheets) = 3
  /\ \E i \in 1..Len(sheets) : sheets[i].content = EditText

\* C8: the reserved sheet is first, and the sheets after it are in ascending
\* order of their names.
C8_SheetOrder ==
  /\ Len(sheets) > 0 => sheets[1].id = TipsId
  /\ \A i \in 2..Len(sheets) : sheets[i].id # TipsId
  /\ \A i \in 2..Len(sheets) : \A j \in (i + 1)..Len(sheets) :
       localeCompare(sheets[i].name, sheets[j].name) <= 0

\* C8 witness: after a load, two user sheets whose ids are in the opposite
\* order of their names, behind the reserved sheet whose name sorts last
C8_Witness ==
  /\ last.loaded
  /\ Len(sheets) = 3
  /\ sheets[2].id = <<"s2">>
  /\ sheets[3].id = <<"s1">>
  /\ sheets[2].name = <<"a">>
  /\ sheets[3].name = <<"B">>

\* whether text s holds the term, letters compared without their case
ContainsTerm(s, term) ==
  \E p \in 0..(Len(s) - Len(term)) :
    \A k \in 1..Len(term) : lowerChar(s[p + k]) = lowerChar(term[k])

SheetHasTerm(sheet, term) ==
  \/ ContainsTerm(sheet.name, term)
  \/ \E h \in 1..Len(sheet.headers) :
       \/ ContainsTerm(sheet.headers[h].name, term)
       \/ \E n \in 1..Len(sheet.headers[h].notes) :
            LET note == sheet.headers[h].notes[n]
            IN \/ ContainsTerm(note.title, term)
               \/ ContainsTerm(note.content, term)
               \/ \E t \in 1..Len(note.tags) : ContainsTerm(note.tags[t], term)

\* C9: with a search term the root query returns the sheets that hold the
\* term in their name, a header name, or a note's title, content or tag, in
\* the order of the list; without a term it returns every sheet.
C9_RootSearch ==
  LET hits == Ascending({i \in 1..Len(sheets) : SheetHasTerm(sheets[i], searchFilter)})
  IN IF searchFilter # <<>>
       THEN rootChildren = [k \in 1..Len(hits) |-> sheets[hits[k]]]
       ELSE rootChildren = sheets

\* C9 witness: a root query under a term that one sheet holds only in another
\* case and another sheet holds only in a description
C9_Witness ==
  /\ last.op = "getChildren"
  /\ searchFilter # <<>>
  /\ Len(rootChildren) >= 1
  /\ Len(rootChildren) < Len(sheets)

Queries == {"getChildren", "getChildrenSheet", "getChildrenHeader"}

\* C10: no getChildren call, on the root, a sheet or a header, changes the
\* list of sheets, their headers or the order of a header's notes.
C10_QueriesNonDestructive ==
  [][last'.op \in Queries => sheets' = sheets]_vars

----------------------------------------------------------------------------
(* Properties of the single mutations, stated on the step that makes them *)

\* the file of the sheet with this id, before the step
FileOf(id) == sheets[Min(findSheet(id))].filePath

\* the sheets with this id after the step
After(id) == {i \in 1..Len(sheets') : sheets'[i].id = id}

\* what a rename to one of the names in names must do, on each step in which
\* updateSheet renamed a sheet other than the reserved one: the first line of
\* its file is the new name, the later lines and the files of the other
\* sheets are as before, and the reloaded sheet has the new name and the
\* headers and notes its text had
RenameRule(names) ==
  last'.op = "updateSheet" /\ last'.ok /\ last'.id # TipsId /\ last'.name \in names =>
    LET file == FileOf(last'.id)
        before == split(fs[file], "\n")
        after == split(fs'[file], "\n")
    IN /\ Len(after) = Len(before)
       /\ after[1] = last'.name
       /\ \A k \in 2..Len(before) : after[k] = before[k]
       /\ \A f \in DOMAIN fs \ {file, TipsFile} : f \in DOMAIN fs' /\ fs'[f] = fs[f]
       /\ Cardinality(After(last'.id)) = 1
       /\ \A i \in After(last'.id) :
            /\ sheets'[i].name = last'.name
            /\ Bare(sheets'[i].headers) = Bare(parseText(fs[file], FALSE))

\* C11: updateSheet(id, newName) on a sheet other than the reserved one
\* rewrites only the first line of its file, leaves every other file alone,
\* and after the reload the sheet has the name newName and the headers and
\* notes it had before.
C11_RenameFirstLineOnly == [][RenameRule(RenameNames)]_vars

\* the same for the plain new name alone, on a file whose first line is not
\* indented: this much holds
RenamePlain ==
  [][last'.op = "updateSheet" /\ last'.ok /\ last'.id # TipsId
       /\ LevelOf(split(fs[FileOf(last'.id)], "\n")[1]) = 0
     => RenameRule({<<"B">>})]_vars

\* the sheet files other than the reserved one and file keep their text over
\* the step, and each has exactly one sheet after it
OthersKept(file) ==
  \A f \in SheetFiles \ {file, TipsFile} :
    /\ f \in DOMAIN fs'
    /\ fs'[f] = fs[f]
    /\ Cardinality({i \in 1..Len(sheets') : sheets'[i].filePath = f}) = 1

\* the sheets of the list whose file is in the folder are, but for the one
\* with this id, still in the list after the step
SheetsKept(id) ==
  \A j \in 1..Len(sheets) :
    sheets[j].id # id /\ sheets[j].filePath \in DOMAIN fs => After(sheets[j].id) # {}

\* C12: deleteSheet on a sheet other than the reserved one removes its file
\* and the reload drops the sheet while every other sheet with a file stays;
\* deleteSheet on the reserved sheet leaves it in the list, first and with
\* the template content, and its file in the folder.
C12_Delete ==
  [][last'.op = "deleteSheet" /\ last'.ok =>
       IF last'.id # TipsId
         THEN /\ FileOf(last'.id) \notin DOMAIN fs'
              /\ After(last'.id) = {}
              /\ OthersKept(FileOf(last'.id))
              /\ SheetsKept(last'.id)
         ELSE /\ After(TipsId) = {1}
              /\ sheets'[1].content = usefulTipsContent
              /\ Bare(sheets'[1].headers) = Bare(parseSheetContent(usefulTipsContent, FALSE))
              /\ TipsFile \in DOMAIN fs'
              /\ fs'[TipsFile] = usefulTipsContent
              /\ OthersKept(TipsFile)
              /\ SheetsKept(TipsId)]_vars

\* C12 witness: deleteSheet has removed the sheet s1 and its file, and the
\* sheet s2 is still in the list behind the reserved one
C12_Witness ==
  /\ last.op = "deleteSheet"
  /\ last.ok
  /\ last.id = <<"s1">>
  /\ <<"s1", ".txt">> \notin DOMAIN fs
  /\ Len(sheets) = 2
  /\ sheets[2].id = <<"s2">>

HasCommand(headers) ==
  \E h \in 1..Len(headers) : \E n \in 1..Len(headers[h].notes) :
    headers[h].notes[n].type = "command"

\* C13: an addSheet that succeeds takes an id that no file and no sheet has,
\* adds one file to the folder and one sheet to the list (once, after the
\* reload), whose parse has a header and a command, and keeps every other
\* sheet file and its sheet as they were.
C13_Add ==
  [][last'.op = "addSheet" /\ last'.ok =>
       LET file == last'.id \o <<".txt">>
       IN /\ file \notin DOMAIN fs
          /\ findSheet(last'.id) = {}
          /\ DOMAIN fs' \ {TipsFile} = (DOMAIN fs \cup {file}) \ {TipsFile}
          /\ Cardinality(After(last'.id)) = 1
          /\ \A i \in After(last'.id) :
               /\ sheets'[i].filePath = file
               /\ sheets'[i].content = fs'[file]
               /\ sheets'[i].headers # <<>>
               /\ HasCommand(sheets'[i].headers)
          /\ OthersKept(file)
          /\ SheetsKept(last'.id)]_vars

\* C13 witness: addSheet has ended with its sheet in the list next to a
\* sheet that was there before
C13_Witness ==
  /\ last.op = "addSheet"
  /\ last.ok
  /\ Len(sheets) = 3
  /\ Cardinality(TipsAt) = 1
  /\ Cardinality({i \in 1..Len(sheets) : sheets[i].id = last.id}) = 1
  /\ HasCommand(sheets[Min({i \in 1..Len(sheets) : sheets[i].id = last.id})].headers)

----------------------------------------------------------------------------
(* Properties of a load over a file system that fails *)

\* the files the last load could read: the sheet files but for the reserved
\* one and those whose read threw
Readable == scanned(DOMAIN fs) \ last.fault.unreadable

SheetsOf(f) == {i \in 1..Len(sheets) : sheets[i].filePath = f}

\* C14 as first stated: a load that could not write the template ends with an
\* empty list.
C14_Original == last.loaded /\ ~last.wrote => sheets = <<>>

\* C14 as amended: a load that could not write the template ends without the
\* reserved sheet, and with one sheet for each other file it could read; the
\* list is empty only when there is no such file or the folder could not be
\* listed.
C14_TemplateWriteFails ==
  last.loaded /\ ~last.wrote =>
    /\ TipsAt = {}
    /\ last.fault.dir =>
         /\ \A f \in Readable : Cardinality(SheetsOf(f)) = 1
         /\ \A i \in 1..Len(sheets) : sheets[i].filePath \in Readable
    /\ ~last.fault.dir => sheets = <<>>

\* C14 witness: a load whose template write failed and that still loaded a
\* sheet
C14_Witness ==
  /\ last.loaded
  /\ ~last.wrote
  /\ last.fault.dir
  /\ Len(sheets) >= 1

\* C15: when the read of a sheet file fails during a load, the load goes on
\* without that file: every other sheet file it lists has its one sheet with
\* the file's text, and the reserved sheet is first when its template was
\* written.
C15_ReadFails ==
  last.loaded /\ last.fault.dir /\ last.fault.unreadable # {} =>
    /\ \A f \in last.fault.unreadable : SheetsOf(f) = {}
    /\ \A f \in Readable :
         /\ Cardinality(SheetsOf(f)) = 1
         /\ \A i \in SheetsOf(f) : sheets[i].content = fs[f]
    /\ last.wrote => TipsAt = {1} /\ sheets[1].content = usefulTipsContent

\* C15 witness: a load that could not read s1.txt and has the reserved sheet
\* and the sheet of s2.txt
C15_Witness ==
  /\ last.loaded
  /\ last.wrote
  /\ last.fault.unreadable = {<<"s1", ".txt">>}
  /\ Len(sheets) = 2
  /\ sheets[1].id = TipsId
  /\ sheets[2].id = <<"s2">>

----------------------------------------------------------------------------
(* Properties of the project tree, stated on the records and the paths of
   the nodes and not by the builder's own loops *)

\* the builds getChildren made: a record list and the items built from it.
\* The flat view builds the whole list; the grouped view builds every bucket
\* that has a folder.
BucketOf(folder) ==
  IF folder.category = <<"favorites">> THEN tree.groups.favoriteProjects
  ELSE IF folder.category = Undefined THEN tree.groups.uncategorizedProjects
  ELSE tree.groups.categoryGroups[folder.category]

Builds ==
  IF ~(tree.built /\ tree.ok) THEN {}
  ELSE IF ~showCategories THEN {[list |-> projects, items |-> tree.items]}
  ELSE {[list |-> BucketOf(tree.items[i]), items |-> tree.items[i].children] :
          i \in 1..Len(tree.items)}

\* every node below items, with the sequence of labels that leads to it
RECURSIVE NodesUnder(_, _)
NodesUnder(items, prefix) ==
  UNION {{[path |-> Append(prefix, items[i].label), item |-> items[i]]}
           \cup NodesUnder(items[i].children, Append(prefix, items[i].label)) :
         i \in 1..Len(items)}

SegmentsOf(project) == splitLabel(project.label)

\* the records whose label is exactly path, and those whose label passes through it
EndingAt(list, path) == {i \in 1..Len(list) : SegmentsOf(list[i]) = path}
Through(list, path) == {i \in 1..Len(list) : IsPrefix(path, SegmentsOf(list[i]))}

LabelA == <<"A">>
LabelAB == <<"A", "/", "B">>

\* C16: a node of a built tree has a fullPath exactly when some record's label
\* splits to the node's path, and it is then the path of the last such record;
\* records that only pass through the node neither set nor clear it.
C16_FullPath ==
  \A b \in Builds : \A n \in NodesUnder(b.items, <<>>) :
    LET ending == EndingAt(b.list, n.path)
    IN /\ (n.item.fullPath # Undefined) <=> (ending # {})
       /\ ending # {} => n.item.fullPath = b.list[Max(ending)].path

\* the flat tree of <<A, A/B>>: the second record passed through A, which
\* keeps the path of the first and has the child B
C16_Witness ==
  /\ tree.built /\ tree.ok /\ ~showCategories
  /\ Len(projects) = 2
  /\ projects[1].label = LabelA
  /\ projects[2].label = LabelAB
  /\ Len(tree.items) = 1
  /\ tree.items[1].fullPath = projects[1].path
  /\ Len(tree.items[1].children) = 1
  /\ tree.items[1].children[1].fullPath = projects[2].path

\* C17: active, category and favorite of a node are those of the last record
\* whose label passes through the node, whether or not it ends there.
C17_LastWriterWins ==
  \A b \in Builds : \A n \in NodesUnder(b.items, <<>>) :
    LET through == Through(b.list, n.path)
    IN /\ through # {}
       /\ LET r == b.list[Max(through)]
          IN /\ n.item.active = r.active
             /\ n.item.category = categoryOf(r)
             /\ n.item.favorite = favoriteOf(r)

\* the flat tree of <<A, A/B>> with records that differ in all three: the
\* node A has the metadata of the record that only passed through it
C17_Witness ==
  /\ tree.built /\ tree.ok /\ ~showCategories
  /\ Len(projects) = 2
  /\ projects[1].label = LabelA
  /\ projects[2].label = LabelAB
  /\ projects[1].active # projects[2].active
  /\ categoryOf(projects[1]) # categoryOf(projects[2])
  /\ favoriteOf(projects[1]) # favoriteOf(projects[2])
  /\ tree.items[1].active = projects[2].active
  /\ tree.items[1].category = categoryOf(projects[2])
  /\ tree.items[1].favorite = favoriteOf(projects[2])

\* the first record of list whose label passes through path
FirstThrough(list, path) == Min(Through(list, path))

\* the siblings items, children of the node at path parent, are in the order
\* in which their names first appeared in list
InsertionOrder(list, items, parent) ==
  \A i, j \in 1..Len(items) :
    i < j => FirstThrough(list, Append(parent, items[i].label))
               < FirstThrough(list, Append(parent, items[j].label))

SiblingsInOrder(b) ==
  /\ InsertionOrder(b.list, b.items, <<>>)
  /\ \A n \in NodesUnder(b.items, <<>>) : InsertionOrder(b.list, n.item.children, n.path)

\* C18: at every level of a built tree the siblings are in the order of the
\* first appearance of their names in the records, whatever the names are.
C18_SiblingOrder == \A b \in Builds : SiblingsInOrder(b)

\* the same for the lists none of whose segments is an array index
NoIndexNames(list) ==
  \A i \in 1..Len(list) :
    \A k \in 1..Len(SegmentsOf(list[i])) : ~isArrayIndex(SegmentsOf(list[i])[k])

SiblingOrderOfNames == \A b \in Builds : NoIndexNames(b.list) => SiblingsInOrder(b)

\* C19: buildProjectTree never fails, whatever the labels are: every
\* getChildren returns a tree.
C19_NeverFails == tree.built => tree.ok

\* the same for the lists no label of which has an inherited name followed by
\* another segment
NoInheritedParent(list) ==
  \A i \in 1..Len(list) :
    \A k \in 1..(Len(SegmentsOf(list[i])) - 1) : SegmentsOf(list[i])[k] \notin InheritedNames

NoInheritedCategory(list) ==
  \A i \in 1..Len(list) : categoryOf(list[i]) \notin InheritedNames

FailsOnlyOnInherited ==
  tree.built /\ NoInheritedParent(projects)
    /\ (showCategories => NoInheritedCategory(projects)) => tree.ok

\* building again from the same list returns the same tree
BuildsTheSame == [][tree.built => tree' = tree]_vars

InBucket(project, bucket) == \E k \in 1..Len(bucket) : bucket[k] = project

PartitionRule(project) ==
  /\ InBucket(project, tree.groups.favoriteProjects) <=> favoriteOf(project)
  /\ \A id \in DOMAIN tree.groups.categoryGroups \cup {categoryOf(project)} :
       (id \in DOMAIN tree.groups.categoryGroups
          /\ InBucket(project, tree.groups.categoryGroups[id]))
         <=> (truthy(categoryOf(project)) /\ id = categoryOf(project))
  /\ InBucket(project, tree.groups.uncategorizedProjects) <=> ~truthy(categoryOf(project))

\* C20: after the grouped view grouped its list, every record is in the
\* favorites bucket iff it is a favorite, in the bucket of its category iff
\* it has a category, and in the uncategorized bucket iff it has none.
C20_Partition ==
  tree.built /\ showCategories =>
    \A i \in 1..Len(projects) : PartitionRule(projects[i])

\* the same for the lists no category of which is an inherited name
PartitionOfOrdinaryIds ==
  tree.built /\ showCategories /\ NoInheritedCategory(projects) /\ NoInheritedParent(projects) =>
    \A i \in 1..Len(projects) : PartitionRule(projects[i])

----------------------------------------------------------------------------
(* Properties of the grouped view *)

CategoryIds(cats) == {cats[i].id : i \in 1..Len(cats)}

HasRecordIn(list, id) == \E i \in 1..Len(list) : categoryOf(list[i]) = id

\* the listed categories that have a record, in the order of the category list
RECURSIVE UsedCategories(_, _)
UsedCategories(cats, list) ==
  IF cats = <<>> THEN <<>>
  ELSE (IF HasRecordIn(list, Head(cats).id) THEN <<Head(cats).id>> ELSE <<>>)
         \o UsedCategories(Tail(cats), list)

\* the categories of the groups the result should have, in order
ExpectedGroups ==
  (IF \E i \in 1..Len(projects) : favoriteOf(projects[i]) THEN <<<<"favorites">>>> ELSE <<>>)
    \o UsedCategories(categories, projects)
    \o (IF \E i \in 1..Len(projects) : ~truthy(categoryOf(projects[i]))
          THEN <<Undefined>> ELSE <<>>)

GroupSequence ==
  /\ [i \in 1..Len(tree.items) |-> tree.items[i].category] = ExpectedGroups
  /\ \A i \in 1..Len(tree.items) :
       tree.items[i].isCategory /\ tree.items[i].children # <<>>

\* C21: the result of the grouped view is the Favorites group, the groups of
\* the listed categories that have records, in list order, and the
\* Uncategorized group, each only when its bucket is non-empty; no group is
\* without children.
C21_GroupSequence == tree.built /\ tree.ok /\ showCategories => GroupSequence

\* the same for the lists whose labels have no inherited name, with a
\* category list that has no category favorite_projects
OrdinaryLabels(list) ==
  \A i \in 1..Len(list) :
    \A k \in 1..Len(SegmentsOf(list[i])) : SegmentsOf(list[i])[k] \notin InheritedNames

GroupSequenceOfOrdinary ==
  tree.built /\ tree.ok /\ showCategories /\ OrdinaryLabels(projects)
    /\ FavoriteProjectsId \notin CategoryIds(categories) => GroupSequence

\* the groups of the result that hold the record
GroupsOf(project) ==
  {i \in 1..Len(tree.items) : InBucket(project, BucketOf(tree.items[i]))}

UnknownCategory(project) ==
  truthy(categoryOf(project)) /\ categoryOf(project) \notin CategoryIds(categories)

\* C22: a record whose category is not in the category list is in no group of
\* a category, but it is in the Favorites or the Uncategorized group of the
\* result, and the build raises no error.
C22_UnknownCategory ==
  tree.built /\ showCategories =>
    \A i \in 1..Len(projects) :
      UnknownCategory(projects[i]) =>
        /\ tree.ok
        /\ GroupsOf(projects[i]) # {}
        /\ \A g \in GroupsOf(projects[i]) :
             tree.items[g].category \in {<<"favorites">>, Undefined}

\* what holds: such a record is in the Favorites group exactly when it is a
\* favorite, and in no other group
UnknownCategoryRule ==
  tree.built /\ tree.ok /\ showCategories =>
    \A i \in 1..Len(projects) :
      UnknownCategory(projects[i]) =>
        \A g \in 1..Len(tree.items) :
          InBucket(projects[i], BucketOf(tree.items[g]))
            <=> (favoriteOf(projects[i]) /\ tree.items[g].category = <<"favorites">>)

----------------------------------------------------------------------------
(* Properties of the terminal registry *)

Live == {t \in 1..Len(terminals) : terminals[t].open}
Tracked == {activeTerminals[n] : n \in DOMAIN activeTerminals}

\* C30: the registry holds exactly the terminals that were opened and not
\* closed, there is at most one of them per name, an open (of a directory
\* that exists) for a name that has a live terminal shows that one and creates
\* none, and the terminal an open shows has the working directory that was
\* asked for.
C30_TerminalRegistry ==
  /\ Tracked = Live
  /\ \A t, u \in Live : terminals[t].name = terminals[u].name => t = u
  /\ shown.did \in {"existing", "created"} /\ shown.liveBefore # {} =>
       shown.did = "existing" /\ shown.terminal \in shown.liveBefore
  /\ shown.terminal # 0 => terminals[shown.terminal].cwd = shown.dir

\* what holds: every entry of the registry is a live terminal of that name,
\* every live terminal has its listener, and a created terminal has the
\* working directory that was asked for
TrackedAreLive ==
  /\ \A n \in DOMAIN activeTerminals :
       activeTerminals[n] \in Live /\ terminals[activeTerminals[n]].name = n
  /\ closeListeners = Live
  /\ shown.did = "created" => terminals[shown.terminal].cwd = shown.dir

-----------------------------------------------------------------------------
(* The list of a provider and the file *)

\* the commands that end with a load of the categorized provider
LoadCommands == {"refreshProjects", "searchProjects", "clearSearch", "toggleShowInactive"}

\* the record passes the flag and the filter the provider holds
Listed(project) ==
  /\ showInactiveProjects \/ project.active
  /\ \/ projectSearchFilter = <<>>
     \/ includes(toLowerCase(project.label), toLowerCase(projectSearchFilter))
     \/ includes(toLowerCase(project.path), toLowerCase(projectSearchFilter))

ListIsTheFileFiltered == projects = SelectSeq(projectsFile, Listed)

\* C23: after every load (refresh, setSearchFilter, clearSearchFilter,
\* toggleShowInactiveProjects) the provider's list is the persisted records in
\* persisted order, restricted to the active ones unless the show-inactive
\* flag is on and, under a search term, to the ones whose label or path has
\* the term in any case; with the term cleared the list is unfiltered again.
C23_LoadedList == lastCommand.op \in LoadCommands => ListIsTheFileFiltered

\* what holds of refresh(): the list is filtered under the flag held when the
\* load began, so the rule of C23 holds of every load that began with the flag
\* the settings have, and of every toggle
LoadsUnderTheHeldFlag ==
  [][(lastCommand'.op \in LoadCommands /\ lastCommand' # lastCommand
        /\ (lastCommand'.op = "toggleShowInactive" \/ showInactiveProjects = setting))
       => ListIsTheFileFiltered']_vars

\* the records of a file, and a record once removeCategory(c) is through
Persisted(f) == {f[i] : i \in 1..Len(f)}

AfterRemoval(project, c) ==
  IF categoryOf(project) = c THEN [k \in DOMAIN project \ {"category"} |-> project[k]]
  ELSE project

RemovedFromTheFile(c) ==
  \A i \in 1..Len(projectsFile) : AfterRemoval(projectsFile[i], c) \in Persisted(projectsFile')

\* C24: after removeCategory(c), c is not in the category list, every persisted
\* record that had the category c is still persisted, now without a category,
\* and every other record is persisted unchanged.
C24_RemoveCategory ==
  [][lastCommand'.op = "removeCategory" /\ saves' = saves + 1 =>
       /\ lastCommand'.target \notin CategoryIds(categories')
       /\ RemovedFromTheFile(lastCommand'.target)]_vars

\* what holds of removeCategory: the category leaves the list, and the records
\* are kept as claimed when the provider's list is the whole file
RemoveCategoryOfAFullList ==
  [][lastCommand'.op = "removeCategory" /\ saves' = saves + 1 =>
       /\ lastCommand'.target \notin CategoryIds(categories')
       /\ lastCommand'.target \notin CategoryIds(categoriesFile')
       /\ projects = projectsFile => RemovedFromTheFile(lastCommand'.target)]_vars

\* the (label, path) pairs of the records of a file
Keys(f) == {<<f[i].label, f[i].path>> : i \in 1..Len(f)}

\* C25: hiding is not deleting: toggleProjectFavorite, assignProjectToCategory,
\* removeCategory and every outcome of a drop leave the set of the persisted
\* (label, path) records as it was, the records hidden by the show-inactive
\* flag or by the search filter included.
C25_HidingIsNotDeleting ==
  [][saves' = saves + 1 => Keys(projectsFile') = Keys(projectsFile)]_vars

\* what holds: a write keeps the records of the file that the provider's
\* list has, and all of them when the list hides none
WritesKeepTheListed ==
  [][saves' = saves + 1 =>
       /\ Keys(projectsFile') = Keys(projectsFile) \cap Keys(projects)
       /\ Keys(projects) = Keys(projectsFile) => Keys(projectsFile') = Keys(projectsFile)]_vars

-----------------------------------------------------------------------------
(* Drag and drop *)

PathsOf(list) == [i \in 1..Len(list) |-> list[i].path]

Elements(seq) == {seq[i] : i \in 1..Len(seq)}

\* the step is a drop on the item of a project of the list
DropOnProject ==
  /\ lastCommand'.op = "handleDrop" /\ saves' = saves + 1
  /\ lastCommand'.target # NoTarget
  /\ ~lastCommand'.target.isCategory
  /\ lastCommand'.target.fullPath \in Elements(PathsOf(projects))

\* after holds the paths of before, the dragged ones right before the target
\* in the order of the drag, the others in the order they had
DraggedBeforeTarget(before, after, dragData, target) ==
  /\ Len(after) = Len(before) /\ Elements(after) = Elements(before)
  /\ \E k \in 1..Len(after) :
       /\ SubSeq(after, k, k + Len(dragData) - 1) = dragData
       /\ k + Len(dragData) <= Len(after)
       /\ after[k + Len(dragData)] = target
  /\ SelectSeq(after, LAMBDA q : q \notin Elements(dragData))
       = SelectSeq(before, LAMBDA q : q \notin Elements(dragData))

\* C27: reorderProjects(dragged, target) with the target in the provider's
\* list leaves a permutation of the list in which the dragged projects stand
\* immediately before the target in drag order and the others keep their
\* relative order; with the target among the dragged the order is unchanged.
C27_Reorder ==
  [][DropOnProject =>
       IF lastCommand'.target.fullPath \in Elements(lastCommand'.dragData)
         THEN PathsOf(projects') = PathsOf(projects)
         ELSE DraggedBeforeTarget(PathsOf(projects), PathsOf(projects'),
                                  lastCommand'.dragData, lastCommand'.target.fullPath)]_vars

\* what holds: the rule of C27 for a target that is not dragged; a drop on a
\* dragged item still leaves a permutation of the list
ReorderOntoAnother ==
  [][DropOnProject =>
       /\ Len(projects') = Len(projects) /\ Persisted(projects') = Persisted(projects)
       /\ lastCommand'.target.fullPath \notin Elements(lastCommand'.dragData) =>
            DraggedBeforeTarget(PathsOf(projects), PathsOf(projects'),
                                lastCommand'.dragData, lastCommand'.target.fullPath)]_vars

\* the last command was a drop on a group folder and the tree was built since
DroppedOnGroup ==
  /\ lastCommand.op = "handleDrop"
  /\ lastCommand.target # NoTarget
  /\ lastCommand.target.isCategory
  /\ tree.built /\ tree.ok

\* the tree shows the project of the path under the folder of the category
ShownUnder(path, category) ==
  \E i \in 1..Len(tree.items) :
    /\ tree.items[i].isCategory
    /\ tree.items[i].category = category
    /\ path \in Elements(PathsOf(BucketOf(tree.items[i])))

\* C28: after projects are dropped on a group item (Favorite Projects, a
\* category of the user, Uncategorized), each of them is shown under that group
\* in the next tree built.
C28_DroppedIntoGroup ==
  DroppedOnGroup =>
    \A k \in 1..Len(lastCommand.dragData) :
      ShownUnder(lastCommand.dragData[k], lastCommand.target.category)

\* what holds: a dropped project that is not a favorite is shown under the
\* category or the Uncategorized folder it was dropped on
IsFavorite(path) ==
  \E i \in 1..Len(projects) : projects[i].path = path /\ favoriteOf(projects[i])

DroppedIntoCategory ==
  DroppedOnGroup /\ lastCommand.target.category # <<"favorites">> =>
    \A k \in 1..Len(lastCommand.dragData) :
      \/ IsFavorite(lastCommand.dragData[k])
      \/ ShownUnder(lastCommand.dragData[k], lastCommand.target.category)

-----------------------------------------------------------------------------
(* The three providers *)

\* the change a command makes, made to the list given
Applied(list, command) ==
  IF command.op = "toggleFavorite" THEN toggleProjectFavorite(list, command.dragData[1])
  ELSE IF command.target = NoTarget THEN moveProjectsToEnd(list, command.dragData)
  ELSE IF command.target.isCategory
    THEN assignProjectsToCategory(list, command.dragData, command.target.category)
  ELSE reorderProjects(list, command.dragData, command.target.fullPath)

\* the step is a write of projects.json by a provider
ProviderWrites ==
  /\ saves' = saves + 1
  /\ lastCommand'.op \in {"toggleFavorite", "handleDrop"}

\* C26: no update is lost between the three providers: in every interleaving
\* of changes through different providers, writes by saveCurrentLocation and
\* refreshes by the watcher, a persisted change is never overwritten by a
\* later save from the stale list of another provider; what a provider writes
\* is its change made to the records the file holds.
C26_NoLostUpdate ==
  [][ProviderWrites => projectsFile' = Applied(projectsFile, lastCommand')]_vars

\* what holds: a provider writes its change made to its own list, which is
\* the file when no watcher event is outstanding
WritesItsOwnList ==
  [][ProviderWrites =>
       /\ projectsFile' = Applied(Sys[lastCommand'.provider].projects, lastCommand')
       /\ watcherEvents = 0 => projectsFile' = Applied(projectsFile, lastCommand')]_vars

Flags ==
  {showInactiveProjects, peers.all.showInactiveProjects, peers.git.showInactiveProjects}

\* C29: the show-inactive flag stays consistent: after the toggleShowInactive
\* command and any later refresh, in every interleaving with the asynchronous
\* update of the settings, the three providers hold the same value, the
\* negation of the value before the toggle, which is the persisted setting
\* once the update is through.
C29_FlagConsistent ==
  lastCommand.toggledFrom # <<>> =>
    /\ Flags = {~lastCommand.toggledFrom[1]}
    /\ settingUpdates = <<>> => setting = ~lastCommand.toggledFrom[1]

\* what holds: the toggle negates the flag of each provider, and the last
\* value it asks the settings to take is the flag of the provider toggled last
ToggleNegatesEachFlag ==
  [][lastCommand'.op = "toggleShowInactive" /\ lastCommand' # lastCommand =>
       /\ showInactiveProjects' = ~showInactiveProjects
       /\ peers'.all.showInactiveProjects = ~peers.all.showInactiveProjects
       /\ peers'.git.showInactiveProjects = ~peers.git.showInactiveProjects
       /\ settingUpdates'[Len(settingUpdates')] = peers'.git.showInactiveProjects]_vars
====
